---------------------------- MODULE Spec2Model ----------------------------
(***************************************************************************)
(* A model of the signals agent (src/signals-agent): the signal store, the *)
(* proposal validator, candidate retrieval and ranking, the activation     *)
(* service and the activation status simulator.                            *)
(*                                                                         *)
(* Platform lists that the code builds with list(set) are modelled as sets *)
(* (their order is not determined by the code); lists whose order the code *)
(* determines are sequences.                                               *)
(***************************************************************************)
EXTENDS Integers, Sequences, FiniteSets, TLC

VARIABLES
    signal_segments,        \* table signal_segments: set of rows
    platform_deployments,   \* table platform_deployments: set of rows
    op,                     \* the operation that produced the current state
    proposals,              \* ProposalValidator.validate: the batch passed in
    valid_proposals,        \* ProposalValidator.validate: first result
    invalid_proposals,      \* ProposalValidator.validate: second result
    validation_report,      \* ProposalValidator.validate: third result
    request,                \* the arguments of the operation in progress
    candidate_signals,      \* the candidate list: the retriever's result, rank_signals' input
    ranked_signals,         \* the ranked list a ranking call returned
    ranking_method,         \* the method tag a ranking call returned
    generation_method,      \* the method tag generate_proposals returned
    response,               \* what the handler or service call returned
    contexts,               \* table contexts: set of rows, one per context_id
    activations,            \* simple_app.activations: the ids kept in memory
    clock                   \* datetime.now(), in seconds

storeVars == <<signal_segments, platform_deployments>>
validatorVars == <<proposals, valid_proposals, invalid_proposals, validation_report>>
rankingVars == <<request, candidate_signals, ranked_signals, ranking_method>>
discoveryVars == <<generation_method, response>>
contextVars == <<contexts, activations, clock>>
vars == <<signal_segments, platform_deployments, op,
          proposals, valid_proposals, invalid_proposals, validation_report,
          request, candidate_signals, ranked_signals, ranking_method,
          generation_method, response, contexts, activations, clock>>

-----------------------------------------------------------------------------
(* Bounds of the model *)

\* most rows of platform_deployments in a store of the validator model
MaxRows == 3
\* most proposals in one batch passed to validate
MaxBatch == 1
\* longest candidate list passed to a ranking function on its own
MaxCandidates == 3
\* largest max_results passed to a ranking function on its own
MaxResults == 3
\* largest limit of a discovery request
MaxLimit == 2
\* longest id list a ranking reply parses to
MaxRankedIds == 2
\* most entries in a proposal reply
MaxDrafts == 1
\* last second the clock reaches
MaxClock == 1
\* most rows of table contexts
MaxContexts == 1

-----------------------------------------------------------------------------
(* Values *)

NoneVal == "None"

\* platform names (api_models.py accepts a fixed list; two are enough here)
Platforms == {"dv360", "amazon"}

\* signal ids that queries and proposals may name
SignalIds == {"signal_001", "signal_002", "signal_003"}

Range(s) == {s[i] : i \in DOMAIN s}

\* max_items of Proposal.signal_ids
MaxItems == 10
\* the limit the discovery handler passes to get_candidate_signals
CandidateLimit == 200
\* the limit the discovery handler passes to get_all_signals
AllSignalsLimit == 20
\* the cap of the discovery handler on the number of proposals
ProposalCap == 10
\* ranked_signals[:3]: the signals the handler's own fallback proposals use
FallbackSignals == 3
\* timedelta(days=1), in seconds: an activation context expires after it
ExpirySeconds == 86400
\* a NULL completed_at
NoTime == -1
\* timedelta(days=7), in seconds: the age beyond which cleanup deletes
RetentionSeconds == 604800
\* the default max_transitions of the bulk handler
DefaultMaxTransitions == 10

\* no operation in progress
NoRequest == [platforms |-> <<>>, limit |-> 0, is_available |-> FALSE]

\* no DiscoveryResponse returned
NoResponse == [matches |-> <<>>, proposals |-> <<>>, using_fallback |-> FALSE,
               ranking_method |-> NoneVal, total_matches |-> 0, total_proposals |-> 0]

-----------------------------------------------------------------------------
(* The store *)

\* rows of signal_segments: id is the primary key
SegmentRow(id, name, coverage, cpm) ==
    [id |-> id, name |-> name, coverage_percentage |-> coverage, base_cpm |-> cpm]

\* rows of platform_deployments
DeploymentRow(sid, platform, live) ==
    [signals_agent_segment_id |-> sid, platform |-> platform, is_live |-> live]

DeploymentRows ==
    {DeploymentRow(sid, p, l) : sid \in SignalIds, p \in Platforms, l \in BOOLEAN}

\* SELECT id FROM signal_segments WHERE id = ?
SegmentExists(sid) == \E r \in signal_segments : r.id = sid

\* SELECT DISTINCT platform FROM platform_deployments
\*   WHERE signals_agent_segment_id = ? AND is_live = 1
LivePlatforms(sid) ==
    {r.platform : r \in {d \in platform_deployments :
                            d.signals_agent_segment_id = sid /\ d.is_live}}

\* set.intersection(*all_platforms) over a non-empty list of sets
RECURSIVE IntersectAll(_)
IntersectAll(sets) ==
    IF Len(sets) = 1 THEN sets[1]
    ELSE sets[1] \cap IntersectAll(Tail(sets))

-----------------------------------------------------------------------------
(* ProposalValidator (services/proposal_validator.py) *)

ERR_UNKNOWN_SIGNAL == "One or more signal IDs do not exist in database"
ERR_NO_COMMON == "Signals do not share any common decisioning platforms"
ERR_LOGIC == "Only OR logic is allowed"
ERR_METADATA == "Required metadata is missing"

\* a Proposal object (api_models.Proposal), with the fields the validator reads
\* or writes; platforms is the set of the list's elements, and the absent
\* validation_errors of a fresh proposal is the empty list; score is in
\* hundredths (0.6 is 60)
ProposalOf(id, name, signal_ids, logic, platforms, score) ==
    [id |-> id, name |-> name, signal_ids |-> signal_ids, logic |-> logic,
     platforms |-> platforms, score |-> score, valid |-> TRUE,
     validation_errors |-> <<>>]

\* mutant: only the first signal id is looked up
ValidateSignalIdsExist_FirstOnly(signal_ids) ==
    signal_ids = <<>> \/ SegmentExists(signal_ids[1])

\* _validate_signal_ids_exist: every id has a row in signal_segments
ValidateSignalIdsExist(signal_ids) ==
    \A i \in DOMAIN signal_ids : SegmentExists(signal_ids[i])

\* _validate_platform_unity: intersection of the live platforms of the ids,
\* the empty set for an empty id list
ValidatePlatformUnity(signal_ids) ==
    IF signal_ids = <<>> THEN {}
    ELSE IntersectAll([i \in DOMAIN signal_ids |-> LivePlatforms(signal_ids[i])])

\* _validate_required_metadata, applied to the proposal after rule 2 has
\* written its platforms (signal_ids and platforms are lists in every proposal
\* of the model, so their "is None" tests are the emptiness tests)
ValidateRequiredMetadata(p) ==
    /\ p.id # NoneVal
    /\ p.name # NoneVal
    /\ p.logic # NoneVal
    /\ p.signal_ids # <<>>
    /\ p.platforms # {}

\* rule 2 of _validate_single_proposal: a non-empty intersection is written
\* into the proposal, an empty one leaves the proposal's platforms as they were
AfterPlatformUnity(p) ==
    IF ValidatePlatformUnity(p.signal_ids) = {} THEN p
    ELSE [p EXCEPT !.platforms = ValidatePlatformUnity(p.signal_ids)]

\* mutant: the OR-only rule is not applied
LogicErrors_Skipped(p) == <<>>

\* rule 3 of _validate_single_proposal
LogicErrors(p) == IF p.logic # "OR" THEN <<ERR_LOGIC>> ELSE <<>>

\* mutant: the rules after the first failing one are not evaluated
SingleProposalErrors_ShortCircuit(p) ==
    IF ~ValidateSignalIdsExist(p.signal_ids) THEN <<ERR_UNKNOWN_SIGNAL>>
    ELSE IF ValidatePlatformUnity(p.signal_ids) = {} THEN <<ERR_NO_COMMON>>
    ELSE IF LogicErrors(p) # <<>> THEN LogicErrors(p)
    ELSE IF ~ValidateRequiredMetadata(AfterPlatformUnity(p)) THEN <<ERR_METADATA>>
    ELSE <<>>

\* the errors list of _validate_single_proposal, in the order it appends them
SingleProposalErrors(p) ==
    (IF ~ValidateSignalIdsExist(p.signal_ids) THEN <<ERR_UNKNOWN_SIGNAL>> ELSE <<>>)
    \o (IF ValidatePlatformUnity(p.signal_ids) = {} THEN <<ERR_NO_COMMON>> ELSE <<>>)
    \o LogicErrors(p)
    \o (IF ~ValidateRequiredMetadata(AfterPlatformUnity(p)) THEN <<ERR_METADATA>> ELSE <<>>)

\* mutant: the proposal keeps the platforms it came with
ValidateSingleProposal_KeepPlatforms(p) ==
    LET errors == SingleProposalErrors(p) IN
    [proposal |-> p, is_valid |-> errors = <<>>, errors |-> errors]

\* _validate_single_proposal: the proposal as the call leaves it, and its
\* return value (is_valid, errors)
ValidateSingleProposal(p) ==
    LET errors == SingleProposalErrors(p) IN
    [proposal |-> AfterPlatformUnity(p), is_valid |-> errors = <<>>, errors |-> errors]

\* _validate_single_proposal while every query of the validator raises:
\* _validate_signal_ids_exist catches and returns False, and
\* _validate_platform_unity catches and returns the empty set
ValidateSingleProposalFailing(p) ==
    LET errors == <<ERR_UNKNOWN_SIGNAL, ERR_NO_COMMON>>
                     \o LogicErrors(p)
                     \o (IF ~ValidateRequiredMetadata(p) THEN <<ERR_METADATA>> ELSE <<>>)
    IN [proposal |-> p, is_valid |-> FALSE, errors |-> errors]

\* the loop of validate over a batch: what _validate_single_proposal gives
\* for each proposal, in batch order
ValidateEach(batch) == [i \in DOMAIN batch |-> ValidateSingleProposal(batch[i])]

IsValidResult(r) == r.is_valid
IsInvalidResult(r) == ~r.is_valid

\* valid_proposals: the proposals found valid, in batch order
ValidList(results) ==
    LET sel == SelectSeq(results, IsValidResult) IN
    [i \in DOMAIN sel |-> sel[i].proposal]

\* invalid_proposals: the others, in batch order, each marked invalid and
\* carrying its errors
InvalidList(results) ==
    LET sel == SelectSeq(results, IsInvalidResult) IN
    [i \in DOMAIN sel |-> [sel[i].proposal EXCEPT !.valid = FALSE,
                                                  !.validation_errors = sel[i].errors]]

\* the counts of the ValidationReport that validate builds
ValidationReport(batch, valid, invalid) ==
    [total_proposals |-> Len(batch),
     valid_count |-> Len(valid),
     invalid_count |-> Len(invalid)]

NoReport == [total_proposals |-> 0, valid_count |-> 0, invalid_count |-> 0]

\* ProposalValidator.validate(batch)
Validate(batch) ==
    LET results == ValidateEach(batch) IN
    /\ proposals' = batch
    /\ valid_proposals' = ValidList(results)
    /\ invalid_proposals' = InvalidList(results)
    /\ validation_report' = ValidationReport(batch, valid_proposals', invalid_proposals')

-----------------------------------------------------------------------------
(* The validator on its own: every store of the bounded family, every batch *)

\* the signal ids the validator model uses: a proposal names any of them, and
\* the store holds any subset of them
ValidatorIds == {"signal_001", "signal_002"}

\* proposal ids are unique within a batch
ProposalIdAt(i) == "proposal_" \o ToString(i)

\* what a caller can put into a proposal: a proposal built through the
\* constructor has logic OR and non-empty lists; one changed after
\* construction (test_proposal_validator.py:91-103) can carry anything
DraftSignalIds == {<<>>, <<"signal_001">>, <<"signal_001", "signal_002">>}
DraftPlatforms == {{}, {"dv360"}, {"dv360", "amazon"}}
Drafts ==
    {ProposalOf(NoneVal, "Package", ids, logic, pf, 85) :
        ids \in DraftSignalIds, logic \in {"OR", "AND"}, pf \in DraftPlatforms}

Batches ==
    {[i \in DOMAIN b |-> [b[i] EXCEPT !.id = ProposalIdAt(i)]] :
        b \in UNION {[1..n -> Drafts] : n \in 0..MaxBatch}}

ValidatorStores ==
    {st \in [segments : SUBSET {SegmentRow(sid, sid, 10, 1) : sid \in ValidatorIds},
             deployments : {d \in SUBSET {r \in DeploymentRows :
                                            r.signals_agent_segment_id \in ValidatorIds} :
                                Cardinality(d) <= MaxRows}] : TRUE}

InitValidator ==
    /\ \E st \in ValidatorStores :
          /\ signal_segments = st.segments
          /\ platform_deployments = st.deployments
    /\ op = "init"
    /\ proposals = <<>>
    /\ valid_proposals = <<>>
    /\ invalid_proposals = <<>>
    /\ validation_report = NoReport
    /\ request = NoRequest
    /\ candidate_signals = <<>>
    /\ ranked_signals = <<>>
    /\ ranking_method = NoneVal
    /\ generation_method = NoneVal
    /\ response = NoResponse
    /\ contexts = {}
    /\ activations = {}
    /\ clock = 0

ValidateBatch ==
    /\ op = "init"
    /\ \E batch \in Batches : Validate(batch)
    /\ op' = "validate"
    /\ UNCHANGED <<storeVars, contextVars, rankingVars, discoveryVars>>

NextValidator == ValidateBatch

SpecValidator == InitValidator /\ [][NextValidator]_vars

-----------------------------------------------------------------------------
(* SignalDiscoveryService (services/signal_discovery.py) *)

\* a SignalMatch object (api_models.SignalMatch) with the fields the services
\* read; allowed_platforms is the set of the list's elements
SignalMatch(id, name, coverage, price, platforms) ==
    [id |-> id, name |-> name, coverage_percentage |-> coverage, price |-> price,
     allowed_platforms |-> platforms]

Min(a, b) == IF a <= b THEN a ELSE b

\* Python's list[:n] for n >= 0, and SQL's LIMIT n
Take(list, n) == SubSeq(list, 1, Min(n, Len(list)))

\* _build_search_query: the rows the WHERE clause keeps; without a platform
\* list (None or empty) every row, otherwise the rows with a live deployment
\* on one of the platforms
SearchQueryRows(platforms) ==
    {r \in signal_segments :
        \/ platforms = <<>>
        \/ \E d \in platform_deployments :
              /\ d.signals_agent_segment_id = r.id
              /\ d.platform \in Range(platforms)
              /\ d.is_live}

\* ORDER BY s.coverage_percentage DESC, s.base_cpm ASC
SearchQueryBefore(a, b) ==
    \/ a.coverage_percentage > b.coverage_percentage
    \/ /\ a.coverage_percentage = b.coverage_percentage
       /\ a.base_cpm < b.base_cpm

\* ORDER BY s.coverage_percentage DESC
AllSignalsBefore(a, b) == a.coverage_percentage > b.coverage_percentage

\* the orders in which a query may return the rows: SQL fixes the order of
\* two rows only when the ORDER BY keys tell them apart; search_query says
\* which of the two ORDER BY clauses applies
RowOrders(rows, search_query) ==
    {o \in [1..Cardinality(rows) -> rows] :
        /\ \A i, j \in DOMAIN o : i # j => o[i] # o[j]
        /\ \A i, j \in DOMAIN o :
              i < j => IF search_query THEN ~SearchQueryBefore(o[j], o[i])
                       ELSE ~AllSignalsBefore(o[j], o[i])}

\* mutant: every deployment row counts, live or not
SignalPlatforms_AnyRow(signal_id) ==
    {d.platform : d \in {x \in platform_deployments :
                            x.signals_agent_segment_id = signal_id}}

\* _get_signal_platforms
SignalPlatforms(signal_id) == LivePlatforms(signal_id)

\* _row_to_signal_match, for a row it does not turn into None
RowToSignalMatch(row) ==
    SignalMatch(row.id, row.name, row.coverage_percentage, row.base_cpm,
                SignalPlatforms(row.id))

\* mutant: rows are not compared with the names already seen
UniqueSignals_KeepAll(rows, signals) ==
    LET kept == SelectSeq(rows, LAMBDA r : SignalPlatforms(r.id) # {}) IN
    signals \o [i \in DOMAIN kept |-> RowToSignalMatch(kept[i])]

\* the loop of get_candidate_signals and get_all_signals: a row without
\* allowed platforms gives None and is skipped, and so is a row whose name
\* was seen
RECURSIVE UniqueSignals(_, _)
UniqueSignals(rows, signals) ==
    IF rows = <<>> THEN signals
    ELSE IF \/ SignalPlatforms(rows[1].id) = {}
            \/ rows[1].name \in {signals[i].name : i \in DOMAIN signals}
         THEN UniqueSignals(Tail(rows), signals)
         ELSE UniqueSignals(Tail(rows), Append(signals, RowToSignalMatch(rows[1])))

\* get_candidate_signals(query, platforms, limit): the lists it may return
GetCandidateSignals(platforms, limit) ==
    {UniqueSignals(Take(o, limit), <<>>) :
        o \in RowOrders(SearchQueryRows(platforms), TRUE)}

\* get_all_signals(limit): the lists it may return
GetAllSignals(limit) ==
    {UniqueSignals(Take(o, limit), <<>>) :
        o \in RowOrders(signal_segments, FALSE)}

-----------------------------------------------------------------------------
(* AIRankingService: the deterministic rankings (services/ai_ranking.py) *)

\* one step of sorted(..., reverse=True): x goes behind every element whose
\* coverage is at least its own, which keeps equal elements in input order
InsertByCoverage(sorted, x) ==
    LET k == Cardinality({i \in DOMAIN sorted :
                            sorted[i].coverage_percentage >= x.coverage_percentage}) IN
    SubSeq(sorted, 1, k) \o <<x>> \o SubSeq(sorted, k + 1, Len(sorted))

\* sorted(signals, key=coverage_percentage, reverse=True): stable
RECURSIVE SortedByCoverageDesc(_)
SortedByCoverageDesc(signals) ==
    IF signals = <<>> THEN <<>>
    ELSE InsertByCoverage(SortedByCoverageDesc(SubSeq(signals, 1, Len(signals) - 1)),
                          signals[Len(signals)])

\* the loop of _fallback_ranking: a signal with a new name is appended, and
\* the loop stops once the list has max_results elements; the length test
\* comes after the append
RECURSIVE FallbackRankingLoop(_, _, _)
FallbackRankingLoop(rest, unique_signals, max_results) ==
    IF rest = <<>> THEN unique_signals
    ELSE IF rest[1].name \in {unique_signals[i].name : i \in DOMAIN unique_signals}
         THEN FallbackRankingLoop(Tail(rest), unique_signals, max_results)
         ELSE IF Len(unique_signals) + 1 >= max_results
              THEN Append(unique_signals, rest[1])
              ELSE FallbackRankingLoop(Tail(rest), Append(unique_signals, rest[1]),
                                       max_results)

\* _fallback_ranking(signals, max_results)
FallbackRankingOf(signals, max_results) ==
    FallbackRankingLoop(SortedByCoverageDesc(signals), <<>>, max_results)

\* signal_map[signal_id] of {signal.id: signal for signal in signals}: the
\* last signal of the list with this id
SignalMapAt(signals, signal_id) ==
    LET at == {i \in DOMAIN signals : signals[i].id = signal_id} IN
    signals[CHOOSE i \in at : \A j \in at : j <= i]

SignalMapIds(signals) == {signals[i].id : i \in DOMAIN signals}

\* the loop of _reorder_signals: an id of the reply that is a candidate's id
\* and whose signal has a new name is appended
RECURSIVE ReorderSignalsLoop(_, _, _)
ReorderSignalsLoop(signals, ranked_ids, ranked) ==
    IF ranked_ids = <<>> THEN ranked
    ELSE IF /\ ranked_ids[1] \in SignalMapIds(signals)
            /\ SignalMapAt(signals, ranked_ids[1]).name
                  \notin {ranked[i].name : i \in DOMAIN ranked}
         THEN ReorderSignalsLoop(signals, Tail(ranked_ids),
                  Append(ranked, SignalMapAt(signals, ranked_ids[1])))
         ELSE ReorderSignalsLoop(signals, Tail(ranked_ids), ranked)

\* mutant: the candidates the reply does not name are added after the ranked
ReorderSignals_Backfill(signals, ranked_ids) ==
    ReorderSignalsLoop(signals,
                       ranked_ids \o [i \in DOMAIN signals |-> signals[i].id],
                       <<>>)

\* _reorder_signals(signals, ranked_ids)
ReorderSignals(signals, ranked_ids) == ReorderSignalsLoop(signals, ranked_ids, <<>>)

\* rank_signals(query, candidate_signals, max_results): the pair it returns.
\* reply is what the model call did: it raised, or _parse_ranking_response
\* returned the list reply.ids (empty when the text could not be parsed)
RankSignals(signals, max_results, is_available, reply) ==
    IF ~is_available \/ reply.raised \/ reply.ids = <<>>
    THEN <<FallbackRankingOf(signals, max_results), "fallback">>
    ELSE <<Take(ReorderSignals(signals, reply.ids), max_results), "ai_ranking">>

\* an element of the JSON array of a ranking reply: a string, or an object
\* that may have a key signals holding an array of strings
StringItem(id) ==
    [is_dict |-> FALSE, id |-> id, has_signals |-> FALSE, signals |-> <<>>]

DictItem(has_signals, signals) ==
    [is_dict |-> TRUE, id |-> NoneVal, has_signals |-> has_signals, signals |-> signals]

\* the loop of _parse_ranking_response over the proposed segments: a string
\* element has no part 'signals' and is passed over
RECURSIVE ExtendSignalIds(_, _)
ExtendSignalIds(data, signal_ids) ==
    IF data = <<>> THEN signal_ids
    ELSE ExtendSignalIds(Tail(data),
            IF Head(data).is_dict /\ Head(data).has_signals
            THEN signal_ids \o [i \in DOMAIN Head(data).signals |->
                                    StringItem(Head(data).signals[i])]
            ELSE signal_ids)

\* _parse_ranking_response(response_text): the list it returns. The text
\* is what json.loads makes of it: no JSON, a value that is no array, or
\* an array
ParseRankingResponse(text) ==
    IF text.kind # "array" THEN <<>>
    ELSE IF text.items # <<>> /\ text.items[1].is_dict
         THEN ExtendSignalIds(text.items, <<>>)
         ELSE text.items

\* mutant: a reply without ids is returned as an AI ranking of nothing
RankSignalsOnText_EmptyIsRanked(signals, max_results, is_available, text) ==
    IF ~is_available \/ text.kind = "raised"
    THEN <<FallbackRankingOf(signals, max_results), "fallback">>
    ELSE <<<<>>, "ai_ranking">>

\* rank_signals(query, candidate_signals, max_results) on the text of the
\* reply. An object among the ids is not hashable: _reorder_signals raises
\* TypeError on it, which rank_signals catches
RankSignalsOnText(signals, max_results, is_available, text) ==
    IF ~is_available \/ text.kind = "raised"
    THEN RankSignals(signals, max_results, is_available, [raised |-> TRUE, ids |-> <<>>])
    ELSE LET ranked_signal_ids == ParseRankingResponse(text) IN
         IF \E i \in DOMAIN ranked_signal_ids : ranked_signal_ids[i].is_dict
         THEN <<FallbackRankingOf(signals, max_results), "fallback">>
         ELSE RankSignals(signals, max_results, is_available,
                          [raised |-> FALSE,
                           ids |-> [i \in DOMAIN ranked_signal_ids |->
                                       ranked_signal_ids[i].id]])

\* _get_common_platforms(signals)
GetCommonPlatforms(signals) ==
    IF signals = <<>> THEN {}
    ELSE IntersectAll([i \in DOMAIN signals |-> signals[i].allowed_platforms])

\* the Proposal model accepts the signal_ids of a draft: one to ten, unique
SignalIdsAccepted(signal_ids) ==
    /\ Len(signal_ids) >= 1
    /\ Len(signal_ids) <= MaxItems
    /\ \A i, j \in DOMAIN signal_ids : i # j => signal_ids[i] # signal_ids[j]

\* _parse_proposal_response keeps this entry of the reply: it has the four
\* required keys, its signal ids are ranked signals' ids, these signals share
\* a platform, and the Proposal model accepts it
DraftKept(data, signals) ==
    /\ data.complete
    /\ \A i \in DOMAIN data.signal_ids : data.signal_ids[i] \in SignalMapIds(signals)
    /\ GetCommonPlatforms([i \in DOMAIN data.signal_ids |->
                              SignalMapAt(signals, data.signal_ids[i])]) # {}
    /\ SignalIdsAccepted(data.signal_ids)

\* mutant: a kept entry keeps the platforms it asserts
ParseProposalResponse_AssertedPlatforms(proposal_data, signals) ==
    LET kept == SelectSeq(proposal_data, LAMBDA data : DraftKept(data, signals)) IN
    [i \in DOMAIN kept |->
        ProposalOf(kept[i].id, kept[i].name, kept[i].signal_ids, "OR",
                   kept[i].platforms, 80)]

\* _parse_proposal_response(response_text, signals), on the parsed entries
ParseProposalResponse(proposal_data, signals) ==
    LET kept == SelectSeq(proposal_data, LAMBDA data : DraftKept(data, signals)) IN
    [i \in DOMAIN kept |->
        ProposalOf(kept[i].id, kept[i].name, kept[i].signal_ids, "OR",
                   GetCommonPlatforms([j \in DOMAIN kept[i].signal_ids |->
                                          SignalMapAt(signals, kept[i].signal_ids[j])]),
                   80)]

\* f"fallback_proposal_{i+1:03d}" for the list index i + 1 = n below 10
FallbackProposalId(n) == "fallback_proposal_00" \o ToString(n)

\* the loop of _fallback_proposals from list position n on: a signal with a
\* new name gives a one-signal proposal while fewer than max_proposals exist
RECURSIVE FallbackProposalsLoop(_, _, _, _, _)
FallbackProposalsLoop(signals, n, proposals_, seen_names, max_proposals) ==
    IF n > Len(signals) THEN proposals_
    ELSE IF signals[n].name \notin seen_names /\ Len(proposals_) < max_proposals
         THEN FallbackProposalsLoop(signals, n + 1,
                  Append(proposals_,
                         ProposalOf(FallbackProposalId(n),
                                    signals[n].name \o " - Fallback",
                                    <<signals[n].id>>, "OR",
                                    signals[n].allowed_platforms, 60)),
                  seen_names \cup {signals[n].name}, max_proposals)
         ELSE FallbackProposalsLoop(signals, n + 1, proposals_, seen_names,
                                    max_proposals)

\* mutant: a signal whose name was seen gets a proposal too
FallbackProposals_RepeatedNames(signals, max_proposals) ==
    [n \in 1..Min(Len(signals), max_proposals) |->
        ProposalOf(FallbackProposalId(n), signals[n].name \o " - Fallback",
                   <<signals[n].id>>, "OR", signals[n].allowed_platforms, 60)]

\* _fallback_proposals(signals, max_proposals)
FallbackProposals(signals, max_proposals) ==
    FallbackProposalsLoop(signals, 1, <<>>, {}, max_proposals)

\* generate_proposals(query, ranked_signals, max_proposals): the pair it
\* returns. reply is what the model call did: it raised, or the text parsed
\* to the entries reply.proposal_data (none when it could not be parsed)
GenerateProposals(signals, max_proposals, is_available, reply) ==
    IF \/ ~is_available
       \/ reply.raised
       \/ ParseProposalResponse(reply.proposal_data, signals) = <<>>
    THEN <<FallbackProposals(signals, max_proposals), "fallback">>
    ELSE <<ParseProposalResponse(reply.proposal_data, signals), "ai_generation">>

-----------------------------------------------------------------------------
(* The ranking functions on their own: every candidate list of the bounded *)
(* family, every max_results                                               *)

SignalNames == {"Sports Fans", "Travel Planners"}
Coverages == {10, 20}

SignalIdAt(i) == "signal_00" \o ToString(i)

\* candidate lists: any names and coverages, the ids distinct
CandidateLists ==
    {[i \in DOMAIN l |-> SignalMatch(SignalIdAt(i), l[i][1], l[i][2], 1, {"dv360"})] :
        l \in UNION {[1..n -> SignalNames \X Coverages] : n \in 1..MaxCandidates}}

InitRanking ==
    /\ signal_segments = {}
    /\ platform_deployments = {}
    /\ op = "init"
    /\ proposals = <<>>
    /\ valid_proposals = <<>>
    /\ invalid_proposals = <<>>
    /\ validation_report = NoReport
    /\ request = NoRequest
    /\ candidate_signals = <<>>
    /\ ranked_signals = <<>>
    /\ ranking_method = NoneVal
    /\ generation_method = NoneVal
    /\ response = NoResponse
    /\ contexts = {}
    /\ activations = {}
    /\ clock = 0

\* a call of _fallback_ranking(signals, max_results)
FallbackRanking ==
    /\ op = "init"
    /\ \E signals \in CandidateLists, max_results \in 0..MaxResults :
          /\ request' = [platforms |-> <<>>, limit |-> max_results, is_available |-> FALSE]
          /\ candidate_signals' = signals
          /\ ranked_signals' = FallbackRankingOf(signals, max_results)
    /\ ranking_method' = "fallback"
    /\ op' = "_fallback_ranking"
    /\ UNCHANGED <<storeVars, contextVars, validatorVars, discoveryVars>>

\* a second call of _fallback_ranking, on the list the first call returned
FallbackRankingAgain ==
    /\ op = "_fallback_ranking"
    /\ candidate_signals' = ranked_signals
    /\ ranked_signals' = FallbackRankingOf(ranked_signals, request.limit)
    /\ op' = "_fallback_ranking again"
    /\ UNCHANGED <<storeVars, contextVars, validatorVars, discoveryVars, request, ranking_method>>

NextRanking == FallbackRanking \/ FallbackRankingAgain

SpecRanking == InitRanking /\ [][NextRanking]_vars

-----------------------------------------------------------------------------
(* rank_signals on its own: every candidate list of the bounded family and *)
(* every reply of the model                                               *)

\* the elements a reply array may hold
ReplyItems ==
    {StringItem(id) : id \in {"signal_001", "signal_002", "signal_999"}}
        \cup {DictItem(FALSE, <<>>), DictItem(TRUE, <<>>),
              DictItem(TRUE, <<"signal_002">>)}

\* what the model call may give: an exception, or a text
RankingTexts ==
    {[kind |-> k, items |-> <<>>] : k \in {"raised", "invalid_json", "object"}}
        \cup {[kind |-> "array", items |-> items] :
                 items \in UNION {[1..n -> ReplyItems] : n \in 0..MaxRankedIds}}

\* a call of rank_signals(query, candidate_signals, max_results)
RankSignalsCall ==
    /\ op = "init"
    /\ \E signals \in CandidateLists, max_results \in 0..MaxResults,
          is_available \in BOOLEAN, text \in RankingTexts :
          /\ is_available \/ text.kind = "raised"
          /\ request' = [platforms |-> <<>>, limit |-> max_results,
                         is_available |-> is_available, reply |-> text]
          /\ candidate_signals' = signals
          /\ ranked_signals' =
                RankSignalsOnText(signals, max_results, is_available, text)[1]
          /\ ranking_method' =
                RankSignalsOnText(signals, max_results, is_available, text)[2]
    /\ op' = "rank_signals"
    /\ UNCHANGED <<storeVars, contextVars, validatorVars, discoveryVars>>

SpecRankSignals == InitRanking /\ [][RankSignalsCall]_vars

-----------------------------------------------------------------------------
(* The discovery handler (simple_app.py, POST /discovery), one step per    *)
(* service call; op is the call that returned last                         *)

\* the segment table of the discovery model: signal_002 may share the name
\* and the coverage of signal_001
DiscoverySegments ==
    {{SegmentRow("signal_001", "Sports Fans", 20, 1),
      SegmentRow("signal_002", name, coverage, 1),
      SegmentRow("signal_003", "Travel Planners", 10, 1)} :
        name \in SignalNames, coverage \in Coverages}

\* the deployment rows of one signal: live on a set of platforms, or one row
\* that is not live
DeploymentsOf(sid) ==
    {{DeploymentRow(sid, pl, TRUE) : pl \in live} : live \in SUBSET Platforms}
        \cup {{DeploymentRow(sid, "dv360", FALSE)}}

DiscoveryDeployments ==
    {d1 \cup d2 \cup d3 :
        d1 \in DeploymentsOf("signal_001") \ {{DeploymentRow("signal_001", "dv360", FALSE)}},
        d2 \in DeploymentsOf("signal_002"),
        d3 \in {{}, {DeploymentRow("signal_003", "dv360", FALSE)},
                {DeploymentRow("signal_003", "dv360", TRUE)}}}

InitDiscovery ==
    /\ signal_segments \in DiscoverySegments \cup {{}}
    /\ platform_deployments \in DiscoveryDeployments
    /\ signal_segments = {} => platform_deployments = {}
    /\ op = "init"
    /\ proposals = <<>>
    /\ valid_proposals = <<>>
    /\ invalid_proposals = <<>>
    /\ validation_report = NoReport
    /\ request = NoRequest
    /\ candidate_signals = <<>>
    /\ ranked_signals = <<>>
    /\ ranking_method = NoneVal
    /\ generation_method = NoneVal
    /\ response = NoResponse
    /\ contexts = {}
    /\ activations = {}
    /\ clock = 0

\* the platform filters of a request: none, or one platform
RequestPlatforms == {<<>>} \cup {<<pl>> : pl \in Platforms}

\* ids a reply of the model may name: the signals' and one that no signal has
ReplyIds == SignalIds \cup {"signal_999"}

\* what the ranking call of the model may do
RankingReplies ==
    {[raised |-> TRUE, ids |-> <<>>]} \cup
    {[raised |-> FALSE, ids |-> ids] :
        ids \in UNION {[1..n -> ReplyIds] : n \in 0..MaxRankedIds}}

\* the signal_ids of an entry of a proposal reply
ReplySignalIds ==
    {<<>>} \cup {<<a>> : a \in ReplyIds}
           \cup {<<"signal_001", b>> : b \in {"signal_001", "signal_002", "signal_003"}}

\* what the proposal call of the model may do
ProposalReplies ==
    {[raised |-> TRUE, proposal_data |-> <<>>]} \cup
    {[raised |-> FALSE, proposal_data |-> data] :
        data \in UNION {[1..n -> {[complete |-> c, id |-> "proposal_001",
                                   name |-> "Package", signal_ids |-> ids] :
                                     c \in BOOLEAN, ids \in ReplySignalIds}] :
                           n \in 0..MaxDrafts}}

\* the handler is called and get_candidate_signals returns
DiscoveryGetCandidateSignals ==
    /\ op = "init"
    /\ \E platforms \in RequestPlatforms, limit \in 1..MaxLimit, is_available \in BOOLEAN :
          request' = [platforms |-> platforms, limit |-> limit,
                      is_available |-> is_available]
    /\ candidate_signals' \in GetCandidateSignals(request'.platforms, CandidateLimit)
    /\ op' = "get_candidate_signals"
    /\ UNCHANGED <<storeVars, contextVars, validatorVars, discoveryVars, ranked_signals, ranking_method>>

\* no candidate: get_all_signals returns
DiscoveryGetAllSignals ==
    /\ op = "get_candidate_signals"
    /\ candidate_signals = <<>>
    /\ candidate_signals' \in GetAllSignals(AllSignalsLimit)
    /\ op' = "get_all_signals"
    /\ UNCHANGED <<storeVars, contextVars, validatorVars, discoveryVars, request, ranked_signals,
                   ranking_method>>

\* still no candidate: the handler returns the empty response
DiscoveryNoSignals ==
    /\ op = "get_all_signals"
    /\ candidate_signals = <<>>
    /\ response' = [matches |-> <<>>, proposals |-> <<>>, using_fallback |-> TRUE,
                    ranking_method |-> "fallback", total_matches |-> 0,
                    total_proposals |-> 0]
    /\ op' = "discovery"
    /\ UNCHANGED <<storeVars, contextVars, validatorVars, rankingVars, generation_method>>

\* rank_signals returns
DiscoveryRankSignals ==
    /\ op \in {"get_candidate_signals", "get_all_signals"}
    /\ candidate_signals # <<>>
    /\ \E reply \in RankingReplies :
          LET ranked == RankSignals(candidate_signals, request.limit,
                                    request.is_available, reply) IN
          /\ ranked_signals' = ranked[1]
          /\ ranking_method' = ranked[2]
    /\ op' = "rank_signals"
    /\ UNCHANGED <<storeVars, contextVars, validatorVars, discoveryVars, request, candidate_signals>>

\* generate_proposals returns
DiscoveryGenerateProposals ==
    /\ op = "rank_signals"
    /\ \E reply \in ProposalReplies :
          LET generated == GenerateProposals(ranked_signals,
                                             Min(request.limit, ProposalCap),
                                             request.is_available, reply) IN
          /\ proposals' = generated[1]
          /\ generation_method' = generated[2]
    /\ op' = "generate_proposals"
    /\ UNCHANGED <<storeVars, contextVars, rankingVars, valid_proposals, invalid_proposals,
                   validation_report, response>>

\* the proposals are validated, replaced by the handler's fallback proposals
\* when none is valid and some are invalid, and the response is returned
DiscoveryRespond ==
    /\ op = "generate_proposals"
    /\ LET first == ValidateEach(proposals)
           retry == ValidList(first) = <<>> /\ InvalidList(first) # <<>>
           fallback_proposals ==
               FallbackProposals(Take(ranked_signals, FallbackSignals),
                                 Min(request.limit, ProposalCap))
           valid == IF retry THEN ValidList(ValidateEach(fallback_proposals))
                    ELSE ValidList(first)
           using_fallback == \/ ranking_method = "fallback"
                             \/ generation_method = "fallback"
                             \/ ValidList(first) = <<>>
       IN /\ valid_proposals' = valid
          /\ invalid_proposals' = InvalidList(first)
          /\ validation_report' = ValidationReport(proposals, ValidList(first),
                                                   InvalidList(first))
          /\ response' = [matches |-> ranked_signals,
                          proposals |-> valid,
                          using_fallback |-> using_fallback,
                          ranking_method |->
                              IF using_fallback THEN "fallback"
                              ELSE ranking_method \o "_" \o generation_method,
                          total_matches |-> Len(ranked_signals),
                          total_proposals |-> Len(valid)]
    /\ op' = "discovery"
    /\ UNCHANGED <<storeVars, contextVars, rankingVars, proposals, generation_method>>

NextDiscovery ==
    \/ DiscoveryGetCandidateSignals
    \/ DiscoveryGetAllSignals
    \/ DiscoveryNoSignals
    \/ DiscoveryRankSignals
    \/ DiscoveryGenerateProposals
    \/ DiscoveryRespond

SpecDiscovery == InitDiscovery /\ [][NextDiscovery]_vars

-----------------------------------------------------------------------------
(* The discovery handler while its collaborators fail: the queries of the  *)
(* retrieval and of the validator may raise, the validator may raise as a  *)
(* whole, and the model calls may raise (RankingReplies, ProposalReplies)  *)

\* the steps that may fail on the database
FailingSteps == {"get_candidate_signals", "get_all_signals", "validate"}

\* the stores of this model: no signal at all, or every signal live on dv360
InitDiscoveryFailing ==
    /\ InitDiscovery
    /\ \A s \in signal_segments : LivePlatforms(s.id) = {"dv360"}

\* mutant: the except branch does not report the fallback
EmptyResponse_NotFallback ==
    [matches |-> <<>>, proposals |-> <<>>, using_fallback |-> FALSE,
     ranking_method |-> "fallback", total_matches |-> 0, total_proposals |-> 0]

\* the response of the handler's except branch
EmptyResponse ==
    [matches |-> <<>>, proposals |-> <<>>, using_fallback |-> TRUE,
     ranking_method |-> "fallback", total_matches |-> 0, total_proposals |-> 0]

\* the handler is called; get_candidate_signals returns, with [] when its
\* query raised
FailingGetCandidateSignals ==
    /\ op = "init"
    /\ \E platforms \in RequestPlatforms, limit \in 1..MaxLimit, is_available \in BOOLEAN,
          failing \in SUBSET FailingSteps :
          request' = [platforms |-> platforms, limit |-> limit,
                      is_available |-> is_available, failing |-> failing]
    /\ IF "get_candidate_signals" \in request'.failing
       THEN candidate_signals' = <<>>
       ELSE candidate_signals' \in GetCandidateSignals(request'.platforms, CandidateLimit)
    /\ op' = "get_candidate_signals"
    /\ UNCHANGED <<storeVars, contextVars, validatorVars, discoveryVars, ranked_signals, ranking_method>>

\* no candidate: get_all_signals returns, with [] when its query raised
FailingGetAllSignals ==
    /\ op = "get_candidate_signals"
    /\ candidate_signals = <<>>
    /\ IF "get_all_signals" \in request.failing
       THEN candidate_signals' = <<>>
       ELSE candidate_signals' \in GetAllSignals(AllSignalsLimit)
    /\ op' = "get_all_signals"
    /\ UNCHANGED <<storeVars, contextVars, validatorVars, discoveryVars, request, ranked_signals,
                   ranking_method>>

\* every collaborator fails, the constructor of the validator first: the
\* except branch of the handler answers
FailingValidatorRaises ==
    /\ op = "init"
    /\ \E platforms \in RequestPlatforms, limit \in 1..MaxLimit, is_available \in BOOLEAN :
          request' = [platforms |-> platforms, limit |-> limit,
                      is_available |-> is_available, failing |-> FailingSteps]
    /\ response' = EmptyResponse
    /\ op' = "discovery"
    /\ UNCHANGED <<storeVars, contextVars, validatorVars, candidate_signals, ranked_signals,
                   ranking_method, generation_method>>

\* the proposals are validated while the validator's queries may raise, and
\* the response is returned
FailingRespond ==
    /\ op = "generate_proposals"
    /\ LET ValidateAll(batch) ==
               IF "validate" \in request.failing
               THEN [i \in DOMAIN batch |-> ValidateSingleProposalFailing(batch[i])]
               ELSE ValidateEach(batch)
           first == ValidateAll(proposals)
           retry == ValidList(first) = <<>> /\ InvalidList(first) # <<>>
           fallback_proposals ==
               FallbackProposals(Take(ranked_signals, FallbackSignals),
                                 Min(request.limit, ProposalCap))
           valid == IF retry THEN ValidList(ValidateAll(fallback_proposals))
                    ELSE ValidList(first)
           using_fallback == \/ ranking_method = "fallback"
                             \/ generation_method = "fallback"
                             \/ ValidList(first) = <<>>
       IN /\ valid_proposals' = valid
          /\ invalid_proposals' = InvalidList(first)
          /\ validation_report' = ValidationReport(proposals, ValidList(first),
                                                   InvalidList(first))
          /\ response' = [matches |-> ranked_signals,
                          proposals |-> valid,
                          using_fallback |-> using_fallback,
                          ranking_method |->
                              IF using_fallback THEN "fallback"
                              ELSE ranking_method \o "_" \o generation_method,
                          total_matches |-> Len(ranked_signals),
                          total_proposals |-> Len(valid)]
    /\ op' = "discovery"
    /\ UNCHANGED <<storeVars, contextVars, rankingVars, proposals, generation_method>>

NextDiscoveryFailing ==
    \/ FailingGetCandidateSignals
    \/ FailingGetAllSignals
    \/ FailingValidatorRaises
    \/ DiscoveryNoSignals
    \/ DiscoveryRankSignals
    \/ DiscoveryGenerateProposals
    \/ FailingRespond

SpecDiscoveryFailing == InitDiscoveryFailing /\ [][NextDiscoveryFailing]_vars

-----------------------------------------------------------------------------
(* The discovery handler called twice with one request on one store, as   *)
(* test_consistency_across_queries does: the caller keeps the names of    *)
(* the matches of the first call                                          *)

\* set(names) of test_consistency_across_queries
MatchNames(r) == {r.matches[i].name : i \in DOMAIN r.matches}

\* the caller records the names and posts the same request again;
\* get_candidate_signals returns
DiscoveryRepeat ==
    /\ op = "discovery"
    /\ "results" \notin DOMAIN request
    /\ request' = [platforms |-> request.platforms, limit |-> request.limit,
                   is_available |-> request.is_available,
                   results |-> MatchNames(response)]
    /\ candidate_signals' \in GetCandidateSignals(request.platforms, CandidateLimit)
    /\ op' = "get_candidate_signals"
    /\ UNCHANGED <<storeVars, contextVars, validatorVars, discoveryVars, ranked_signals,
                   ranking_method>>

NextRepeatedDiscovery == NextDiscovery \/ DiscoveryRepeat

SpecRepeatedDiscovery == InitDiscoveryFailing /\ [][NextRepeatedDiscovery]_vars

-----------------------------------------------------------------------------
(* ActivationService (services/activation_service.py) and the model        *)
(* ActivationRequest (api_models.py)                                       *)

ERR_NEITHER_TARGET == "Either segment_id or proposal_id must be provided"
ERR_BOTH_TARGETS == "Cannot provide both segment_id and proposal_id"
\* min_items=1 of ActivationRequest.platforms
ERR_NO_REQUESTED_PLATFORM == "platforms: min_items"
ERR_PROPOSAL_NOT_FOUND == "Proposal not found"
ERR_SEGMENT_NOT_FOUND == "Segment not found"
ERR_NO_SEGMENT_PLATFORMS == "No platforms found for segment"
\* the messages below without the values the code formats into them
ERR_NO_OVERLAP == "No overlap between available platforms and requested platforms"
\* the PRIMARY KEY of table contexts refuses a second row of one context_id
ERR_CONTEXT_EXISTS == "UNIQUE constraint failed: contexts.context_id"

\* Python's truth value of an Optional[str] field
Truthy(x) == x # NoneVal /\ x # ""

\* mutant: a request naming both targets passes
ActivationRequestErrors_AllowBoth(req) ==
    IF req.platforms = {} THEN <<ERR_NO_REQUESTED_PLATFORM>>
    ELSE IF ~Truthy(req.segment_id) /\ ~Truthy(req.proposal_id)
         THEN <<ERR_NEITHER_TARGET>>
         ELSE <<>>

\* the errors with which the model ActivationRequest refuses to be built:
\* min_items of platforms, then validate_activation_target
ActivationRequestErrors(req) ==
    IF req.platforms = {} THEN <<ERR_NO_REQUESTED_PLATFORM>>
    ELSE IF ~Truthy(req.segment_id) /\ ~Truthy(req.proposal_id)
         THEN <<ERR_NEITHER_TARGET>>
         ELSE IF Truthy(req.segment_id) /\ Truthy(req.proposal_id)
              THEN <<ERR_BOTH_TARGETS>>
              ELSE <<>>

\* _get_common_platforms_for_signals(signal_ids)
CommonPlatformsForSignals(signal_ids) ==
    IF signal_ids = <<>> THEN {}
    ELSE IntersectAll([i \in DOMAIN signal_ids |-> LivePlatforms(signal_ids[i])])

\* _get_proposal_by_id: the signal ids of the proposal it rebuilds from the
\* id, or no ids when it returns None (no table proposals exists, so the
\* query of the last branch fails and None is returned)
ProposalSignalIds(proposal_id) ==
    IF proposal_id = "proposal_001" THEN <<"signal_001", "signal_002">>
    ELSE IF proposal_id = "proposal_002" THEN <<"signal_003">>
    ELSE <<>>

\* _process_proposal_activation and _process_segment_activation: the error
\* raised, or NoneVal with the allowed platforms
ResolveTarget(req) ==
    IF Truthy(req.proposal_id)
    THEN IF CommonPlatformsForSignals(ProposalSignalIds(req.proposal_id)) = {}
         THEN [error |-> ERR_PROPOSAL_NOT_FOUND, target_id |-> req.proposal_id,
               target_type |-> "proposal", allowed_platforms |-> {}]
         ELSE [error |-> NoneVal, target_id |-> req.proposal_id,
               target_type |-> "proposal",
               allowed_platforms |->
                   CommonPlatformsForSignals(ProposalSignalIds(req.proposal_id))]
    ELSE IF Truthy(req.segment_id)
    THEN IF ~SegmentExists(req.segment_id)
         THEN [error |-> ERR_SEGMENT_NOT_FOUND, target_id |-> req.segment_id,
               target_type |-> "segment", allowed_platforms |-> {}]
         ELSE IF LivePlatforms(req.segment_id) = {}
              THEN [error |-> ERR_NO_SEGMENT_PLATFORMS, target_id |-> req.segment_id,
                    target_type |-> "segment", allowed_platforms |-> {}]
              ELSE [error |-> NoneVal, target_id |-> req.segment_id,
                    target_type |-> "segment",
                    allowed_platforms |-> LivePlatforms(req.segment_id)]
    ELSE [error |-> ERR_NEITHER_TARGET, target_id |-> NoneVal,
          target_type |-> NoneVal, allowed_platforms |-> {}]

\* mutant: the requested platforms are not looked at
IntersectPlatforms_Available(available_platforms, requested_platforms) ==
    available_platforms

\* _intersect_platforms, where it does not raise
IntersectPlatforms(available_platforms, requested_platforms) ==
    IF requested_platforms = {} THEN available_platforms
    ELSE available_platforms \cap requested_platforms

\* f"act_{timestamp}_{target_id}" with the timestamp of this second
ActivationId(now, target_id) == "act_" \o ToString(now) \o "_" \o target_id

\* mutant: the row expires when it is created
ActivationContext_ExpiresNow(now, target, final_platforms) ==
    [context_id |-> ActivationId(now, target.target_id),
     context_type |-> "activation",
     status |-> "pending",
     metadata |-> [target_id |-> target.target_id, target_type |-> target.target_type,
                   platforms |-> final_platforms],
     created_at |-> now,
     completed_at |-> NoTime,
     expires_at |-> now]

\* the row _create_activation_context inserts
ActivationContext(now, target, final_platforms) ==
    [context_id |-> ActivationId(now, target.target_id),
     context_type |-> "activation",
     status |-> "pending",
     metadata |-> [target_id |-> target.target_id, target_type |-> target.target_type,
                   platforms |-> final_platforms],
     created_at |-> now,
     completed_at |-> NoTime,
     expires_at |-> now + ExpirySeconds]

ContextIds == {c.context_id : c \in contexts}

ContextAt(context_id) == CHOOSE c \in contexts : c.context_id = context_id

\* what an operation on activations answers: an error or none, and the
\* values it returns
Answer(error, detail, activation_id, allowed_platforms) ==
    [error |-> error, detail |-> detail, activation_id |-> activation_id,
     allowed_platforms |-> allowed_platforms]

\* POST /activation: the request model is built, process_activation runs,
\* the context row is inserted and the id is kept in memory; a ValueError and
\* any other exception leave the table and the memory as they were
ActivateSignal(req) ==
    IF ActivationRequestErrors(req) # <<>>
    THEN /\ response' = Answer("ValidationError", ActivationRequestErrors(req)[1],
                               NoneVal, {})
         /\ contexts' = contexts
         /\ activations' = activations
    ELSE LET target == ResolveTarget(req)
             final_platforms == IntersectPlatforms(target.allowed_platforms,
                                                   req.platforms)
         IN IF target.error # NoneVal
            THEN /\ response' = Answer("ValueError", target.error, NoneVal, {})
                 /\ contexts' = contexts
                 /\ activations' = activations
            ELSE IF final_platforms = {}
            THEN /\ response' = Answer("ValueError", ERR_NO_OVERLAP, NoneVal, {})
                 /\ contexts' = contexts
                 /\ activations' = activations
            ELSE IF ActivationId(clock, target.target_id) \in ContextIds
            THEN /\ response' = Answer("IntegrityError", ERR_CONTEXT_EXISTS, NoneVal, {})
                 /\ contexts' = contexts
                 /\ activations' = activations
            ELSE /\ response' = Answer(NoneVal, NoneVal,
                                       ActivationId(clock, target.target_id),
                                       final_platforms)
                 /\ contexts' = contexts \cup
                                  {ActivationContext(clock, target, final_platforms)}
                 /\ activations' = activations \cup
                                     {ActivationId(clock, target.target_id)}

\* the signal ids _validate_principal_access looks up for a target
ConstituentIds(target) ==
    IF target.target_type = "proposal" THEN Range(ProposalSignalIds(target.target_id))
    ELSE {target.target_id}

\* the warnings _validate_principal_access logs: the constituent ids without
\* a row of the principal in principal_segment_access
AccessWarnings(principal_id, target, access) ==
    {sid \in ConstituentIds(target) : <<principal_id, sid>> \notin access}

\* mutant: a missing access record is an error
PrincipalAccessErrors_Strict(principal_id, target, access) ==
    IF AccessWarnings(principal_id, target, access) # {}
    THEN <<"No access record found">> ELSE <<>>

\* the errors _validate_principal_access raises: it logs its warnings and
\* catches every exception
PrincipalAccessErrors(principal_id, target, access) == <<>>

\* the row of contexts with its column principal_id
PrincipalContext(principal_id, context) ==
    [context_id |-> context.context_id,
     principal_id |-> principal_id,
     context_type |-> context.context_type,
     status |-> context.status,
     metadata |-> context.metadata,
     created_at |-> context.created_at,
     completed_at |-> context.completed_at,
     expires_at |-> context.expires_at]

\* process_activation(request) for a principal, with the rows access of
\* principal_segment_access: the answer and the rows it inserts
ProcessActivationAs(req, principal_id, access) ==
    IF ActivationRequestErrors(req) # <<>>
    THEN [answer |-> Answer("ValidationError", ActivationRequestErrors(req)[1], NoneVal, {}),
          rows |-> {}]
    ELSE LET target == ResolveTarget(req)
             final_platforms == IntersectPlatforms(target.allowed_platforms,
                                                   req.platforms)
         IN IF target.error # NoneVal
            THEN [answer |-> Answer("ValueError", target.error, NoneVal, {}), rows |-> {}]
            ELSE IF PrincipalAccessErrors(principal_id, target, access) # <<>>
            THEN [answer |-> Answer("ValueError",
                                    PrincipalAccessErrors(principal_id, target, access)[1],
                                    NoneVal, {}),
                  rows |-> {}]
            ELSE IF final_platforms = {}
            THEN [answer |-> Answer("ValueError", ERR_NO_OVERLAP, NoneVal, {}), rows |-> {}]
            ELSE IF ActivationId(clock, target.target_id) \in ContextIds
            THEN [answer |-> Answer("IntegrityError", ERR_CONTEXT_EXISTS, NoneVal, {}),
                  rows |-> {}]
            ELSE [answer |-> Answer(NoneVal, NoneVal,
                                    ActivationId(clock, target.target_id),
                                    final_platforms),
                  rows |-> {PrincipalContext(principal_id,
                               ActivationContext(clock, target, final_platforms))}]

-----------------------------------------------------------------------------
(* StatusSimulator (services/status_simulator.py) *)

\* mutant: a pending activation is completed at once
StatusFlow_SkipInProgress(status) ==
    IF status \in {"pending", "in_progress"} THEN "completed" ELSE status

\* mutant: an activation in progress stays in progress
StatusFlow_Stuck(status) ==
    IF status = "pending" THEN "in_progress" ELSE status

\* self.status_flow
StatusFlow(status) ==
    IF status = "pending" THEN "in_progress"
    ELSE IF status = "in_progress" THEN "completed"
    ELSE status

\* valid_statuses of force_status
ValidStatuses == {"pending", "in_progress", "completed", "failed", "expired"}

\* the UPDATE of both operations: the status is stored, and completed_at with
\* it when the status is completed or failed
UpdateStatus(row, status, now) ==
    [row EXCEPT !.status = status,
                !.completed_at = IF status \in {"completed", "failed"} THEN now ELSE @]

\* what both operations return: None, or the details read from the row
NotFound == [found |-> FALSE, status |-> NoneVal, completed_at |-> NoTime,
             updated_at |-> NoTime]

ActivationDetails(row) ==
    [found |-> TRUE, status |-> row.status, completed_at |-> row.completed_at,
     updated_at |-> IF row.completed_at # NoTime THEN row.completed_at
                    ELSE row.created_at]

\* valid_statuses of StatusResponse.validate_status
StatusResponseStatuses ==
    {"pending", "queued", "in_progress", "completed", "failed", "cancelled"}

\* what a status handler of simple_app.py answers for the details the service
\* returned: HTTPException 404 for None, the details in a StatusResponse, or
\* HTTPException 500 when StatusResponse refuses the status
StatusAnswer(details) ==
    [found |-> details.found, status |-> details.status,
     completed_at |-> details.completed_at, updated_at |-> details.updated_at,
     error |-> IF ~details.found THEN "HTTPException 404"
               ELSE IF details.status \notin StatusResponseStatuses
                    THEN "HTTPException 500"
                    ELSE NoneVal]

\* POST /status/{activation_id}/simulate: simulate_status_transition(activation_id)
\* and the handler's answer
SimulateStatusTransition(activation_id) ==
    IF activation_id \notin ContextIds
    THEN /\ response' = StatusAnswer(NotFound)
         /\ contexts' = contexts
    ELSE LET row == ContextAt(activation_id)
             next_status == StatusFlow(row.status)
         IN IF next_status = row.status
            THEN /\ response' = StatusAnswer(ActivationDetails(row))
                 /\ contexts' = contexts
            ELSE /\ contexts' = (contexts \ {row})
                                  \cup {UpdateStatus(row, next_status, clock)}
                 /\ response' = StatusAnswer(
                        ActivationDetails(UpdateStatus(row, next_status, clock)))

\* mutant: a context in a terminal status is left as it is
ForcedRow_KeepTerminal(row, status, now) ==
    IF row.status \in {"completed", "failed", "expired"} THEN row
    ELSE UpdateStatus(row, status, now)

\* the row force_status leaves behind
ForcedRow(row, status, now) == UpdateStatus(row, status, now)

\* POST /status/{activation_id}/force: force_status(activation_id, status) and
\* the handler's answer
ForceStatus(activation_id, status) ==
    IF status \notin ValidStatuses \/ activation_id \notin ContextIds
    THEN /\ response' = StatusAnswer(NotFound)
         /\ contexts' = contexts
    ELSE LET row == ContextAt(activation_id) IN
         /\ contexts' = (contexts \ {row}) \cup {ForcedRow(row, status, clock)}
         /\ response' = StatusAnswer(ActivationDetails(ForcedRow(row, status, clock)))

\* GET /status/{activation_id}: get_activation_status(activation_id) and the
\* handler's answer; without a row the handler turns to the ids kept in
\* memory, whose entries have no key updated_at, so that reading one raises
\* KeyError and the handler answers HTTPException 500
GetStatus(activation_id) ==
    /\ contexts' = contexts
    /\ response' =
          IF activation_id \in ContextIds
          THEN StatusAnswer(ActivationDetails(ContextAt(activation_id)))
          ELSE IF activation_id \notin activations
               THEN StatusAnswer(NotFound)
               ELSE [StatusAnswer(NotFound) EXCEPT !.error = "HTTPException 500"]

\* WHERE context_type = 'activation' AND status IN ('pending', 'in_progress')
PendingRows ==
    {c \in contexts : /\ c.context_type = "activation"
                      /\ c.status \in {"pending", "in_progress"}}

\* ORDER BY created_at ASC: the orders in which the query may return the rows
CreatedOrders(rows) ==
    {o \in [1..Cardinality(rows) -> rows] :
        /\ \A i, j \in DOMAIN o : i # j => o[i] # o[j]
        /\ \A i, j \in DOMAIN o : i < j => o[i].created_at <= o[j].created_at}

\* get_pending_activations(): the lists it may return
GetPendingActivations ==
    {[i \in DOMAIN o |-> ActivationDetails(o[i])] : o \in CreatedOrders(PendingRows)}

\* mutant: a pending row is taken through both steps in one call
AdvancedRow_TwoSteps(row, now) ==
    UpdateStatus(row, StatusFlow(StatusFlow(row.status)), now)

\* the row simulate_status_transition leaves behind
AdvancedRow(row, now) ==
    IF StatusFlow(row.status) = row.status THEN row
    ELSE UpdateStatus(row, StatusFlow(row.status), now)

\* simulate_bulk_transitions(max_transitions): simulate_status_transition on
\* each of the first max_transitions rows of the pending query
SimulateBulkTransitions(max_transitions) ==
    \E o \in CreatedOrders(PendingRows) :
        LET rows == Take(o, max_transitions) IN
        /\ contexts' = (contexts \ Range(rows))
                          \cup {AdvancedRow(r, clock) : r \in Range(rows)}
        /\ response' = [updated_activations |->
                            [i \in DOMAIN rows |->
                                ActivationDetails(AdvancedRow(rows[i], clock))],
                        count |-> Len(rows)]

\* mutant: the delete forgets the context type
CleanupExpiredActivations_AnyType ==
    LET cutoff_date == clock - RetentionSeconds
        deleted == {c \in contexts : c.created_at < cutoff_date}
    IN /\ contexts' = contexts \ deleted
       /\ response' = [deleted_count |-> Cardinality(deleted)]

\* cleanup_expired_activations(): DELETE ... WHERE context_type = 'activation'
\* AND created_at < cutoff_date; time stamps are compared as ISO strings,
\* whose order is the order of the times
CleanupExpiredActivations ==
    LET cutoff_date == clock - RetentionSeconds
        deleted == {c \in contexts : /\ c.context_type = "activation"
                                     /\ c.created_at < cutoff_date}
    IN /\ contexts' = contexts \ deleted
       /\ response' = [deleted_count |-> Cardinality(deleted)]

-----------------------------------------------------------------------------
(* Activations and their status: requests arrive one after the other while *)
(* the clock advances                                                      *)

\* the segments exist except signal_003; signal_001 is live on no platform
\* or on two, signal_002 on none or on one
ActivationDeployments ==
    {{DeploymentRow("signal_001", pl, TRUE) : pl \in live1}
        \cup {DeploymentRow("signal_002", pl, TRUE) : pl \in live2} :
        live1 \in {{}, {"dv360", "amazon"}}, live2 \in {{}, {"dv360"}}}

InitActivation ==
    /\ signal_segments = {SegmentRow("signal_001", "Sports Fans", 20, 1),
                          SegmentRow("signal_002", "Travel Planners", 10, 1)}
    /\ platform_deployments \in ActivationDeployments
    /\ op = "init"
    /\ proposals = <<>>
    /\ valid_proposals = <<>>
    /\ invalid_proposals = <<>>
    /\ validation_report = NoReport
    /\ request = NoRequest
    /\ candidate_signals = <<>>
    /\ ranked_signals = <<>>
    /\ ranking_method = NoneVal
    /\ generation_method = NoneVal
    /\ response = NoResponse
    /\ contexts = {}
    /\ activations = {}
    /\ clock = 0

\* platforms a caller may request; no signal is deployed on openx
RequestedPlatforms == {{}, {"dv360"}, {"openx"}, {"dv360", "openx"}}

ActivationRequests ==
    [segment_id : {NoneVal, "signal_001", "signal_003"},
     proposal_id : {NoneVal, "proposal_001"},
     platforms : RequestedPlatforms]

\* ids a caller may ask about: the ones stored and one that is not
KnownOrUnknownIds == ContextIds \cup {"act_unknown"}

\* statuses a caller may force: the five of the table and one that
\* StatusResponse knows and the table does not
ForcedStatuses == ValidStatuses \cup {"queued"}

unchangedByActivations ==
    UNCHANGED <<storeVars, validatorVars, candidate_signals, ranked_signals,
                ranking_method, generation_method, clock>>

\* the operations on stored contexts leave the ids kept in memory alone
unchangedByStatus == unchangedByActivations /\ UNCHANGED activations

Tick ==
    /\ clock < MaxClock
    /\ clock' = clock + 1
    /\ UNCHANGED <<storeVars, validatorVars, rankingVars, discoveryVars, contexts,
                   activations, op>>

Activate ==
    /\ \E req \in ActivationRequests :
          /\ request' = req
          /\ ActivateSignal(req)
          /\ Cardinality({c \in contexts' : c.context_type = "activation"})
                <= MaxContexts
    /\ op' = "activate_signal"
    /\ unchangedByActivations

Advance ==
    /\ \E activation_id \in KnownOrUnknownIds :
          /\ request' = [activation_id |-> activation_id, status |-> NoneVal]
          /\ SimulateStatusTransition(activation_id)
    /\ op' = "simulate_status_transition"
    /\ unchangedByStatus

Force ==
    /\ \E activation_id \in KnownOrUnknownIds, status \in ForcedStatuses :
          /\ request' = [activation_id |-> activation_id, status |-> status]
          /\ ForceStatus(activation_id, status)
    /\ op' = "force_status"
    /\ unchangedByStatus

NextActivation == Tick \/ Activate \/ Advance \/ Force

SpecActivation == InitActivation /\ [][NextActivation]_vars

-----------------------------------------------------------------------------
(* The life of activation contexts: every operation on table contexts, over *)
(* a time long enough for cleanup to delete                                *)

\* a context of another type that the table may hold
OtherContext ==
    [context_id |-> "ctx_discovery",
     context_type |-> "discovery",
     status |-> "completed",
     metadata |-> [target_id |-> NoneVal, target_type |-> NoneVal, platforms |-> {}],
     created_at |-> 0,
     completed_at |-> NoTime,
     expires_at |-> ExpirySeconds]

InitLifecycle ==
    /\ signal_segments = {SegmentRow("signal_001", "Sports Fans", 20, 1),
                          SegmentRow("signal_002", "Travel Planners", 10, 1)}
    /\ platform_deployments = {DeploymentRow("signal_001", "dv360", TRUE),
                               DeploymentRow("signal_001", "amazon", TRUE),
                               DeploymentRow("signal_002", "dv360", TRUE)}
    /\ op = "init"
    /\ proposals = <<>>
    /\ valid_proposals = <<>>
    /\ invalid_proposals = <<>>
    /\ validation_report = NoReport
    /\ request = NoRequest
    /\ candidate_signals = <<>>
    /\ ranked_signals = <<>>
    /\ ranking_method = NoneVal
    /\ generation_method = NoneVal
    /\ response = NoResponse
    /\ contexts = {OtherContext}
    /\ activations = {}
    /\ clock = 0

\* requests for one platform: without a target, and for a segment
LifecycleRequests ==
    [segment_id : {NoneVal, "signal_001"},
     proposal_id : {NoneVal},
     platforms : {{"dv360"}}]

\* ids a caller may ask about: those activate_signal has returned, whose
\* contexts may since have been deleted, and one that was never created
AskedIds == activations \cup {"act_unknown"}

\* the retention window passes
Sleep ==
    /\ clock = MaxClock
    /\ clock' = clock + RetentionSeconds
    /\ UNCHANGED <<storeVars, validatorVars, rankingVars, discoveryVars, contexts,
                   activations, op>>

LifecycleActivate ==
    /\ \E req \in LifecycleRequests :
          /\ request' = req
          /\ ActivateSignal(req)
          /\ Cardinality(activations') <= MaxContexts
    /\ op' = "activate_signal"
    /\ unchangedByActivations

GetActivationStatus ==
    /\ \E activation_id \in AskedIds :
          /\ request' = [activation_id |-> activation_id, status |-> NoneVal]
          /\ GetStatus(activation_id)
    /\ op' = "get_status"
    /\ unchangedByStatus

LifecycleAdvance ==
    /\ \E activation_id \in AskedIds :
          /\ request' = [activation_id |-> activation_id, status |-> NoneVal]
          /\ SimulateStatusTransition(activation_id)
    /\ op' = "simulate_status_transition"
    /\ unchangedByStatus

LifecycleForce ==
    /\ \E activation_id \in AskedIds, status \in ValidStatuses :
          /\ request' = [activation_id |-> activation_id, status |-> status]
          /\ ForceStatus(activation_id, status)
    /\ op' = "force_status"
    /\ unchangedByStatus

BulkAdvance ==
    /\ \E max_transitions \in {1, DefaultMaxTransitions} :
          /\ request' = [max_transitions |-> max_transitions]
          /\ SimulateBulkTransitions(max_transitions)
    /\ op' = "simulate_bulk_transitions"
    /\ unchangedByStatus

ListPending ==
    /\ response' \in {[pending_activations |-> l, count |-> Len(l)] :
                         l \in GetPendingActivations}
    /\ request' = NoRequest
    /\ op' = "get_pending_activations"
    /\ UNCHANGED contexts
    /\ unchangedByStatus

Reap ==
    /\ CleanupExpiredActivations
    /\ request' = NoRequest
    /\ op' = "cleanup_expired_activations"
    /\ unchangedByStatus

\* the operations that run without an administrator
NextAutomatic ==
    \/ Tick
    \/ Sleep
    \/ LifecycleActivate
    \/ GetActivationStatus
    \/ LifecycleAdvance
    \/ BulkAdvance
    \/ ListPending
    \/ Reap

SpecAutomatic == InitLifecycle /\ [][NextAutomatic]_vars

\* the operations on one activation, an administrator's included
NextLifecycle ==
    \/ Tick
    \/ Sleep
    \/ LifecycleActivate
    \/ GetActivationStatus
    \/ LifecycleAdvance
    \/ LifecycleForce
    \/ Reap

SpecLifecycle == InitLifecycle /\ [][NextLifecycle]_vars

-----------------------------------------------------------------------------
(* Activation by principals: the rows of contexts carry their principal_id, *)
(* and the table principal_segment_access is what the caller finds          *)

PrincipalIds == {"principal_a", "principal_b"}

\* the tables principal_segment_access of the model
AccessTables ==
    {{}, {<<"principal_a", "signal_001">>},
     {<<"principal_a", "signal_001">>, <<"principal_a", "signal_002">>}}

PrincipalRequests ==
    [segment_id : {NoneVal, "signal_001"},
     proposal_id : {NoneVal, "proposal_001"},
     platforms : {{"dv360"}, {"openx"}}]

ActivateAs ==
    /\ \E req \in PrincipalRequests, principal_id \in PrincipalIds,
          access \in AccessTables :
          /\ request' = [segment_id |-> req.segment_id, proposal_id |-> req.proposal_id,
                         platforms |-> req.platforms, principal_id |-> principal_id,
                         access |-> access]
          /\ response' = ProcessActivationAs(req, principal_id, access).answer
          /\ contexts' = contexts \cup ProcessActivationAs(req, principal_id, access).rows
          /\ activations' = activations \cup
                {r.context_id : r \in ProcessActivationAs(req, principal_id, access).rows}
          /\ Cardinality(contexts') <= MaxContexts
    /\ op' = "activate_signal"
    /\ unchangedByActivations

NextPrincipal == Tick \/ ActivateAs

SpecPrincipal == InitActivation /\ [][NextPrincipal]_vars

-----------------------------------------------------------------------------
(* Validation and activation of proposals in one process: the discovery    *)
(* handler validates the proposals of a reply, a caller activates by id    *)

\* the proposals a reply may carry under the id of the prompt's example
ReplyBatches ==
    {<<ProposalOf("proposal_001", "Package", ids, logic, {"dv360"}, 80)>> :
        ids \in {<<"signal_001">>, <<"signal_002">>, <<"signal_001", "signal_002">>},
        logic \in {"OR", "AND"}}

\* validator.validate(proposals) of the discovery handler
ValidateProposals ==
    /\ \E batch \in ReplyBatches : Validate(batch)
    /\ op' = "validate"
    /\ UNCHANGED <<storeVars, contextVars, rankingVars, discoveryVars>>

NextProposalActivation == Tick \/ ValidateProposals \/ Activate

SpecProposalActivation == InitActivation /\ [][NextProposalActivation]_vars

-----------------------------------------------------------------------------
(* Claims about ProposalValidator, checked under SpecValidator *)

\* the platforms on which every one of the ids has a deployment row with
\* is_live true, read from the table
LiveIntersection(ids) ==
    {pl \in Platforms :
        \A i \in DOMAIN ids :
            \E d \in platform_deployments :
                /\ d.signals_agent_segment_id = ids[i]
                /\ d.platform = pl
                /\ d.is_live}

\* the proposal of the batch with this id was returned in this list
ReturnedIn(list, id) == \E j \in DOMAIN list : list[j].id = id

\* C1: every proposal in the valid list of validate has a platform set equal
\* to the intersection of the live-platform sets of its signal ids, whatever
\* platform set it carried on input
C1_ValidPlatformsAreLiveIntersection ==
    op = "validate" =>
        \A j \in DOMAIN valid_proposals :
            valid_proposals[j].platforms
                = LiveIntersection(valid_proposals[j].signal_ids)

\* a proposal of two signals was returned valid with platforms that differ
\* from the ones it came with
C1_Witness ==
    /\ op = "validate"
    /\ \E i \in DOMAIN proposals, j \in DOMAIN valid_proposals :
          /\ valid_proposals[j].id = proposals[i].id
          /\ Len(proposals[i].signal_ids) = 2
          /\ valid_proposals[j].platforms # proposals[i].platforms

\* C2: every signal id of a proposal in the valid list has a row in
\* signal_segments, and a proposal naming an absent id is in the invalid list
C2_ValidSignalIdsExist ==
    op = "validate" =>
        /\ \A j \in DOMAIN valid_proposals :
              \A k \in DOMAIN valid_proposals[j].signal_ids :
                  \E r \in signal_segments : r.id = valid_proposals[j].signal_ids[k]
        /\ \A i \in DOMAIN proposals :
              (\E k \in DOMAIN proposals[i].signal_ids :
                  \A r \in signal_segments : r.id # proposals[i].signal_ids[k])
              => /\ ReturnedIn(invalid_proposals, proposals[i].id)
                 /\ ~ReturnedIn(valid_proposals, proposals[i].id)

\* a proposal whose first signal exists and whose second does not, and which
\* breaks no other rule, was returned invalid
C2_Witness ==
    /\ op = "validate"
    /\ \E j \in DOMAIN invalid_proposals :
          /\ Len(invalid_proposals[j].signal_ids) = 2
          /\ \E r \in signal_segments : r.id = invalid_proposals[j].signal_ids[1]
          /\ \A r \in signal_segments : r.id # invalid_proposals[j].signal_ids[2]
          /\ invalid_proposals[j].validation_errors = <<ERR_UNKNOWN_SIGNAL>>

\* C3: every proposal in the valid list has logic OR, and a proposal whose
\* logic is not OR is in the invalid list with the OR-only reason among its
\* validation errors
C3_OnlyOrLogicIsValid ==
    op = "validate" =>
        /\ \A j \in DOMAIN valid_proposals : valid_proposals[j].logic = "OR"
        /\ \A i \in DOMAIN proposals :
              proposals[i].logic # "OR"
              => /\ ~ReturnedIn(valid_proposals, proposals[i].id)
                 /\ \E j \in DOMAIN invalid_proposals :
                       /\ invalid_proposals[j].id = proposals[i].id
                       /\ invalid_proposals[j].logic = proposals[i].logic
                       /\ ~invalid_proposals[j].valid
                       /\ ERR_LOGIC \in Range(invalid_proposals[j].validation_errors)

\* a proposal that breaks the OR-only rule and no other was returned invalid
C3_Witness ==
    /\ op = "validate"
    /\ \E j \in DOMAIN invalid_proposals :
          /\ invalid_proposals[j].logic = "AND"
          /\ invalid_proposals[j].validation_errors = <<ERR_LOGIC>>

-----------------------------------------------------------------------------
(* Claims about discovery, checked under SpecDiscovery *)

\* no two positions of the list hold signals of one name
DistinctNames(list) ==
    \A i, j \in DOMAIN list : i # j => list[i].name # list[j].name

\* the signal has no deployment row with is_live true, read from the table
NoLiveDeployment(signal_id) ==
    ~ \E d \in platform_deployments :
          d.signals_agent_segment_id = signal_id /\ d.is_live

\* two rows of signal_segments have one name and a live deployment each
TwoLiveRowsOfOneName ==
    \E a, b \in signal_segments :
        /\ a.id # b.id
        /\ a.name = b.name
        /\ ~NoLiveDeployment(a.id)
        /\ ~NoLiveDeployment(b.id)

\* C4: no two signals of one response share a name: not in the list the
\* retriever returned (get_candidate_signals or get_all_signals), not in the
\* list rank_signals returned on the AI path or the fallback path, and not in
\* the matches of the discovery response, whatever the store holds
C4_NoTwoSignalsShareAName ==
    /\ DistinctNames(candidate_signals)
    /\ DistinctNames(ranked_signals)
    /\ DistinctNames(response.matches)

\* the store holds two live rows of one name and a third live row, the
\* retriever returned two signals, and the response ranked by the model's
\* reply carries matches
C4_Witness ==
    /\ op = "discovery"
    /\ TwoLiveRowsOfOneName
    /\ Len(candidate_signals) = 2
    /\ ranking_method = "ai_ranking"
    /\ response.matches # <<>>

\* C5: a signal without a live deployment row is in no discovery result: not
\* in the retriever's list of either query, not in the ranked matches, and not
\* among the signal ids of a returned proposal
C5_NoSignalWithoutLivePlatform ==
    /\ \A i \in DOMAIN candidate_signals : ~NoLiveDeployment(candidate_signals[i].id)
    /\ \A i \in DOMAIN ranked_signals : ~NoLiveDeployment(ranked_signals[i].id)
    /\ \A i \in DOMAIN response.matches : ~NoLiveDeployment(response.matches[i].id)
    /\ \A i \in DOMAIN response.proposals :
          \A k \in DOMAIN response.proposals[i].signal_ids :
              ~NoLiveDeployment(response.proposals[i].signal_ids[k])

\* the store holds a signal whose only deployment row is not live, the primary
\* query found nothing so that get_all_signals ran, and the response carries
\* matches and proposals
C5_Witness ==
    /\ op = "discovery"
    /\ \E d \in platform_deployments :
          ~d.is_live /\ NoLiveDeployment(d.signals_agent_segment_id)
    /\ request.platforms # <<>>
    /\ \A i \in DOMAIN response.matches :
          request.platforms[1] \notin response.matches[i].allowed_platforms
    /\ response.matches # <<>>
    /\ response.proposals # <<>>

-----------------------------------------------------------------------------
(* Claims about the ranking functions, checked under SpecRanking *)

NoRepeatedName(list) ==
    \A i, j \in DOMAIN list : i # j => list[i].name # list[j].name

NonIncreasingCoverage(list) ==
    \A i, j \in DOMAIN list :
        i < j => list[i].coverage_percentage >= list[j].coverage_percentage

\* C6: _fallback_ranking on a non-empty list and a max_results >= 0 returns a
\* list without repeated names, in non-increasing coverage, of at most
\* max_results elements, all of them elements of the input; and ranking the
\* returned list again returns it unchanged
C6_FallbackRankingContract ==
    /\ op = "_fallback_ranking" =>
          /\ NoRepeatedName(ranked_signals)
          /\ NonIncreasingCoverage(ranked_signals)
          /\ Len(ranked_signals) <= request.limit
          /\ Range(ranked_signals) \subseteq Range(candidate_signals)
    /\ op = "_fallback_ranking again" => ranked_signals = candidate_signals

-----------------------------------------------------------------------------
(* Claims about activations and their status, checked under SpecActivation *)

\* a step in which the operation ran (the clock stands still while it runs)
ActivateStep == op' = "activate_signal" /\ clock' = clock
AdvanceStep == op' = "simulate_status_transition" /\ clock' = clock
ForceStep == op' = "force_status" /\ clock' = clock

\* the field of the request names a target
IsSet(x) == x # "None" /\ x # ""

\* the row of this context_id in a state of table contexts
RowOf(table, context_id) == CHOOSE c \in table : c.context_id = context_id

HasRow(table, context_id) == \E c \in table : c.context_id = context_id

\* C7: an activation request that sets neither segment_id nor proposal_id, or
\* both, is rejected with a validation error and no row is added to contexts;
\* a request that is answered without error sets exactly one of the two
C7_ExactlyOneTarget ==
    [][ActivateStep =>
          /\ IsSet(request'.segment_id) = IsSet(request'.proposal_id) =>
                /\ response'.error = "ValidationError"
                /\ contexts' = contexts
          /\ response'.error = "None" =>
                IsSet(request'.segment_id) # IsSet(request'.proposal_id)]_vars

\* a request naming a segment and a proposal was rejected although its
\* proposal alone would have been activated: the signals of proposal_001 share
\* a live platform that the request asks for
C7_Witness ==
    /\ op = "activate_signal"
    /\ request.segment_id = "signal_001"
    /\ request.proposal_id = "proposal_001"
    /\ LiveIntersection(<<"signal_001", "signal_002">>) \cap request.platforms # {}
    /\ response.error = "ValidationError"
    /\ response.detail = ERR_BOTH_TARGETS

\* C8: for a request that names an existing segment only and asks for at
\* least one platform, a platform list is returned only when the segment's
\* live platforms and the requested ones intersect, and it is exactly that
\* intersection; when they do not intersect the call fails with the service's
\* ValueError (no overlap, or no platform at all when the segment is live
\* nowhere) and no row is added to contexts
C8_SegmentPlatformsAreIntersection ==
    [][(/\ ActivateStep
        /\ IsSet(request'.segment_id)
        /\ ~IsSet(request'.proposal_id)
        /\ request'.platforms # {}
        /\ \E r \in signal_segments : r.id = request'.segment_id) =>
          LET live == LiveIntersection(<<request'.segment_id>>)
              both == live \cap request'.platforms
          IN /\ response'.error = "None" =>
                   /\ response'.allowed_platforms = both
                   /\ both # {}
             /\ both = {} =>
                   /\ response'.error = "ValueError"
                   /\ response'.detail = IF live = {} THEN ERR_NO_SEGMENT_PLATFORMS
                                          ELSE ERR_NO_OVERLAP
                   /\ contexts' = contexts]_vars

\* the segment is live on two platforms, the request asks for one of them and
\* for a platform the segment is not on, and the one platform is returned
C8_Witness ==
    /\ op = "activate_signal"
    /\ request.segment_id = "signal_001"
    /\ request.proposal_id = "None"
    /\ LiveIntersection(<<"signal_001">>) = {"dv360", "amazon"}
    /\ request.platforms = {"dv360", "openx"}
    /\ response.error = "None"
    /\ response.allowed_platforms = {"dv360"}

\* C9: advance on a stored context follows the table: pending becomes
\* in_progress; in_progress becomes completed and completed_at is set to the
\* time of the call; completed, failed and expired stay, with completed_at as
\* it was
C9_AdvanceFollowsTheTable ==
    [][(AdvanceStep /\ HasRow(contexts, request'.activation_id)) =>
          /\ HasRow(contexts', request'.activation_id)
          /\ LET before == RowOf(contexts, request'.activation_id)
                 after == RowOf(contexts', request'.activation_id)
             IN /\ before.status = "pending" => after.status = "in_progress"
                /\ before.status = "in_progress" =>
                      /\ after.status = "completed"
                      /\ after.completed_at = clock
                      /\ after.completed_at # NoTime
                /\ before.status \in {"completed", "failed", "expired"} =>
                      /\ after.status = before.status
                      /\ after.completed_at = before.completed_at]_vars

\* advance was called on a context completed at an earlier time: the answer
\* reads completed and carries the earlier completed_at
C9_Witness ==
    /\ op = "simulate_status_transition"
    /\ HasRow(contexts, request.activation_id)
    /\ RowOf(contexts, request.activation_id).status = "completed"
    /\ RowOf(contexts, request.activation_id).completed_at # NoTime
    /\ RowOf(contexts, request.activation_id).completed_at < clock
    /\ response.found
    /\ response.status = "completed"
    /\ response.completed_at = RowOf(contexts, request.activation_id).completed_at

\* C10: force on a stored context with one of pending, in_progress,
\* completed, failed, expired stores that status whatever the status was;
\* force with another status is refused and leaves table contexts as it was
C10_ForceStoresAnyLegalStatus ==
    [][ForceStep =>
          /\ (/\ HasRow(contexts, request'.activation_id)
              /\ request'.status \in {"pending", "in_progress", "completed",
                                      "failed", "expired"}) =>
                /\ HasRow(contexts', request'.activation_id)
                /\ RowOf(contexts', request'.activation_id).status = request'.status
          /\ request'.status \notin {"pending", "in_progress", "completed",
                                     "failed", "expired"} =>
                /\ contexts' = contexts
                /\ ~response'.found]_vars

\* a context that had reached completed or failed was forced back to pending
C10_Witness ==
    /\ op = "force_status"
    /\ HasRow(contexts, request.activation_id)
    /\ request.status = "pending"
    /\ RowOf(contexts, request.activation_id).status = "pending"
    /\ RowOf(contexts, request.activation_id).completed_at # NoTime
    /\ response.found

-----------------------------------------------------------------------------
(* Claims about the life of activation contexts, checked under SpecLifecycle *)
(* and SpecAutomatic                                                        *)

ReapStep == op' = "cleanup_expired_activations" /\ clock' = clock

GetStatusStep == op' = "get_status" /\ clock' = clock

\* the contexts cleanup has to delete: activations created more than the
\* retention time before now
Expired(now) ==
    {c \in contexts : /\ c.context_type = "activation"
                      /\ now - c.created_at > RetentionSeconds}

\* C11: cleanup deletes exactly the activation contexts created more than 7
\* days before the call, whatever their status, returns how many it deleted,
\* and leaves every other context as it was
C11_ReapDeletesExactlyTheExpired ==
    [][ReapStep =>
          /\ contexts' = contexts \ Expired(clock)
          /\ response'.deleted_count = Cardinality(Expired(clock))]_vars

\* cleanup has deleted an activation context and kept a context of another
\* type that is as old
C11_Witness ==
    /\ op = "cleanup_expired_activations"
    /\ response.deleted_count = 1
    /\ clock > RetentionSeconds
    /\ OtherContext \in contexts
    /\ activations # {}

\* cleanup has kept an activation context that is exactly 7 days old
C11_KeptAtSevenDays ==
    /\ op = "cleanup_expired_activations"
    /\ response.deleted_count = 0
    /\ \E c \in contexts : /\ c.context_type = "activation"
                           /\ clock - c.created_at = RetentionSeconds

\* the moves of a status that the automatic flow allows in one operation
AutomaticMoves ==
    {<<"pending", "pending">>, <<"pending", "in_progress">>,
     <<"in_progress", "in_progress">>, <<"in_progress", "completed">>,
     <<"completed", "completed">>}

\* C12: while nobody forces a status, the status of every activation context
\* only moves pending -> in_progress -> completed: it never goes back, never
\* skips in_progress, never leaves completed, and is never failed or expired
C12_StatusOnlyMovesForward ==
    [][/\ \A c \in contexts, d \in contexts' :
             (c.context_type = "activation" /\ d.context_id = c.context_id)
                => <<c.status, d.status>> \in AutomaticMoves
       /\ \A d \in contexts' :
             d.context_type = "activation"
                => d.status \in {"pending", "in_progress", "completed"}]_vars

\* a bulk transition has completed an activation that is still stored
C12_Witness ==
    /\ op = "simulate_bulk_transitions"
    /\ response.count = 1
    /\ response.updated_activations[1].status = "completed"
    /\ \E c \in contexts : c.context_type = "activation" /\ c.status = "completed"

-----------------------------------------------------------------------------
(* Claims about rank_signals, checked under SpecRankSignals *)

\* the text of the reply does not hold an array of ids: it is no JSON, no
\* array, an empty array, or an array of objects without an array signals
NoUsableIds(text) ==
    \/ text.kind # "array"
    \/ text.items = <<>>
    \/ \A i \in DOMAIN text.items :
          text.items[i].is_dict /\ ~text.items[i].has_signals

\* the text holds at least one id: a string of the array, or a string of the
\* array signals of one of its objects
HoldsAnId(text) ==
    /\ text.kind = "array"
    /\ \E i \in DOMAIN text.items :
          \/ ~text.items[i].is_dict
          \/ text.items[i].has_signals /\ text.items[i].signals # <<>>

\* C13: rank_signals always returns a ranking and a tag; when the model is not
\* configured, the call raises, or the text holds no usable array of ids, it
\* returns the fallback ranking with tag fallback; the tag is ai_ranking only
\* when the reply held at least one id
C13_RankSignalsFallsBack ==
    op = "rank_signals" =>
        /\ ranking_method \in {"fallback", "ai_ranking"}
        /\ (\/ ~request.is_available
            \/ request.reply.kind = "raised"
            \/ NoUsableIds(request.reply))
              => /\ ranking_method = "fallback"
                 /\ ranked_signals = FallbackRankingOf(candidate_signals, request.limit)
        /\ ranking_method = "ai_ranking"
              => /\ request.is_available
                 /\ HoldsAnId(request.reply)

\* the configured model answered with an array of objects, none of which has
\* an array signals, and the candidates came back in the fallback order
C13_Witness ==
    /\ op = "rank_signals"
    /\ request.is_available
    /\ request.reply.kind = "array"
    /\ request.reply.items # <<>>
    /\ NoUsableIds(request.reply)
    /\ ranking_method = "fallback"
    /\ Len(ranked_signals) = 2

-----------------------------------------------------------------------------
(* Claims about the discovery handler while its collaborators fail, checked *)
(* under SpecDiscoveryFailing                                              *)

\* DiscoveryResponse accepts the value: the counts are those of the lists and
\* ranking_method holds one of the valid methods
IsDiscoveryResponse(r) ==
    /\ r.using_fallback \in BOOLEAN
    /\ r.total_matches = Len(r.matches)
    /\ r.total_proposals = Len(r.proposals)
    /\ r.ranking_method \in {"fallback", "ai_ranking_ai_generation"}

C14_ValidationFailed ==
    /\ op = "discovery"
    /\ request.failing = {"validate"}
    /\ response.matches # <<>>
    /\ response.proposals = <<>>
    /\ response.using_fallback

LifecycleForceStep == op' = "force_status" /\ clock' = clock

\* C15: forcing an existing activation to any of the five statuses returns the
\* record with that status without a failure, and getStatus on an existing
\* activation returns the record with the stored status without a failure
C15_ForceThenGetStatusAgree ==
    [][/\ (/\ LifecycleForceStep
           /\ request'.activation_id \in ContextIds
           /\ request'.status \in ValidStatuses)
          => /\ response'.error = NoneVal
             /\ response'.status = request'.status
       /\ (/\ GetStatusStep
           /\ request'.activation_id \in ContextIds)
          => /\ response'.error = NoneVal
             /\ response'.status = ContextAt(request'.activation_id).status]_vars

\* C16: getStatus, advance and force on an id without a context in the table,
\* one never created or one whose context cleanup has deleted, answer not
\* found and leave every context as it was
C16_UnknownIdIsNotFound ==
    [][(/\ GetStatusStep \/ AdvanceStep \/ LifecycleForceStep
        /\ request'.activation_id \notin ContextIds)
          => /\ response'.error = "HTTPException 404"
             /\ contexts' = contexts]_vars

-----------------------------------------------------------------------------
(* Claims about principals, checked under SpecPrincipal *)

\* the request of the step, without its principal and access table
RequestOf(r) ==
    [segment_id |-> r.segment_id, proposal_id |-> r.proposal_id, platforms |-> r.platforms]

\* C17: the same activate call by any other principal, with any other access
\* table, gets the same answer (both succeed or both fail, same platforms) and
\* stores the same rows but for the principal_id
C17_PrincipalDoesNotMatter ==
    [][ActivateStep =>
          \A principal_id \in PrincipalIds, access \in AccessTables :
             LET other == ProcessActivationAs(RequestOf(request'), principal_id, access)
             IN /\ other.answer = response'
                /\ {[r EXCEPT !.principal_id = request'.principal_id] : r \in other.rows}
                      = contexts' \ contexts
                /\ \A r \in other.rows : r.principal_id = principal_id]_vars

\* a principal without any access record has activated a proposal, and the
\* row carries its id
C17_Witness ==
    /\ op = "activate_signal"
    /\ response.error = NoneVal
    /\ request.proposal_id = "proposal_001"
    /\ request.principal_id = "principal_b"
    /\ AccessWarnings("principal_b", ResolveTarget(RequestOf(request)), request.access)
          = {"signal_001", "signal_002"}
    /\ \E c \in contexts : c.principal_id = "principal_b"

-----------------------------------------------------------------------------
(* Claims about the activation of proposals, checked under                  *)
(* SpecProposalActivation                                                   *)

\* C18: a proposal that activate accepts is one the validator has passed under
\* that id, with the signal ids activate uses, and it satisfies the
\* validator's rules at the time of the activation
C18_ActivatedProposalWasValidated ==
    [][(/\ ActivateStep
        /\ response'.error = NoneVal
        /\ IsSet(request'.proposal_id))
          => \E i \in DOMAIN valid_proposals :
                /\ valid_proposals[i].id = request'.proposal_id
                /\ valid_proposals[i].signal_ids = ProposalSignalIds(request'.proposal_id)
                /\ ValidateSingleProposal(valid_proposals[i]).is_valid]_vars

-----------------------------------------------------------------------------
(* Claims about repeated discovery, checked under SpecRepeatedDiscovery *)

\* C19: on an unchanged store the second call with the same platforms and
\* limit returns matches with the same set of names as the first, whatever
\* the ranking replies were
C19_SameNamesOnEveryCall ==
    (op = "discovery" /\ "results" \in DOMAIN request)
        => MatchNames(response) = request.results

\* the reply of the call parsed to a non-empty sequence of ids
ParsedToIds ==
    /\ request.is_available
    /\ request.reply.kind = "array"
    /\ ParseRankingResponse(request.reply) # <<>>
    /\ \A i \in DOMAIN ParseRankingResponse(request.reply) :
          ~ParseRankingResponse(request.reply)[i].is_dict

\* the ids of the reply, in its order
ParsedIds ==
    [i \in DOMAIN ParseRankingResponse(request.reply) |->
        ParseRankingResponse(request.reply)[i].id]

\* the candidates the ids name, in the order of the reply, ids of no
\* candidate left out
NamedCandidates ==
    LET hits == SelectSeq(ParsedIds,
                          LAMBDA id : \E j \in DOMAIN candidate_signals :
                                         candidate_signals[j].id = id)
    IN [k \in DOMAIN hits |->
           candidate_signals[CHOOSE j \in DOMAIN candidate_signals :
                                 candidate_signals[j].id = hits[k]]]

\* the positions of NamedCandidates that hold the first signal of a name
FirstOfName ==
    {k \in DOMAIN NamedCandidates :
        \A m \in 1..(k - 1) : NamedCandidates[m].name # NamedCandidates[k].name}

\* the i-th of these positions
NthFirstOfName(i) ==
    CHOOSE k \in FirstOfName : Cardinality({m \in FirstOfName : m < k}) = i - 1

\* C20: when the reply parses to a non-empty sequence of ids, the ranking is
\* tagged ai_ranking and is the sequence of the candidates the ids name, in
\* the order of the reply, without the ids of no candidate, with only the
\* first signal of each name, cut to max_results; no other candidate is added
C20_RankingFollowsTheReply ==
    (op = "rank_signals" /\ ParsedToIds) =>
        /\ ranking_method = "ai_ranking"
        /\ Len(ranked_signals) = Min(Cardinality(FirstOfName), request.limit)
        /\ \A i \in DOMAIN ranked_signals :
              /\ ranked_signals[i] = NamedCandidates[NthFirstOfName(i)]
              /\ ranked_signals[i].id \in Range(ParsedIds)

\* the reply named an id of no candidate and then one of three candidates:
\* that candidate alone is returned
C20_Witness ==
    /\ op = "rank_signals"
    /\ ParsedToIds
    /\ ParsedIds = <<"signal_999", "signal_002">>
    /\ Len(candidate_signals) = 3
    /\ request.limit >= 2
    /\ Len(ranked_signals) = 1
    /\ ranked_signals[1].id = "signal_002"

-----------------------------------------------------------------------------
(* generate_proposals on its own (ai_ranking.py): every ranked list of the *)
(* bounded family, every reply of the model call                           *)

\* ranked lists: any names, the ids distinct; every signal is live on dv360
\* or not, the first one on amazon too when on dv360 and the others on amazon
\* alone when not
RankedLists ==
    {[i \in DOMAIN l |->
         SignalMatch(SignalIdAt(i), l[i][1], 10, 1,
                     IF l[i][2] THEN (IF i = 1 THEN {"amazon", "dv360"} ELSE {"dv360"})
                     ELSE (IF i = 1 THEN {"dv360"} ELSE {"amazon"}))] :
        l \in UNION {[1..n -> SignalNames \X BOOLEAN] : n \in 1..(MaxLimit + 1)}}

\* the entries a proposal reply may hold: one without its reasoning, and
\* complete ones naming no signal, one ranked or unranked signal, or two; each
\* asserts platforms of its own
DraftEntries ==
    {[complete |-> FALSE, id |-> "proposal_001", name |-> "Package",
      signal_ids |-> <<"signal_001">>, platforms |-> {"amazon"}]} \cup
    {[complete |-> TRUE, id |-> "proposal_001", name |-> "Package",
      signal_ids |-> ids, platforms |-> {"amazon"}] :
        ids \in {<<>>, <<"signal_001">>, <<"signal_002">>, <<"signal_999">>,
                 <<"signal_001", "signal_002">>}}

\* what the proposal call of the model may do
DraftReplies ==
    {[raised |-> TRUE, proposal_data |-> <<>>]} \cup
    {[raised |-> FALSE, proposal_data |-> data] :
        data \in UNION {[1..n -> DraftEntries] : n \in 0..(MaxDrafts + 1)}}

\* a call of generate_proposals(query, ranked_signals, max_proposals)
GenerateProposalsCall ==
    /\ op = "init"
    /\ \E signals \in RankedLists, max_proposals \in 1..MaxLimit,
          is_available \in BOOLEAN, reply \in DraftReplies :
          /\ is_available \/ reply.raised
          /\ request' = [platforms |-> <<>>, limit |-> max_proposals,
                         is_available |-> is_available, reply |-> reply]
          /\ ranked_signals' = signals
          /\ proposals' =
                GenerateProposals(signals, max_proposals, is_available, reply)[1]
          /\ generation_method' =
                GenerateProposals(signals, max_proposals, is_available, reply)[2]
    /\ op' = "generate_proposals"
    /\ UNCHANGED <<storeVars, contextVars, valid_proposals, invalid_proposals,
                   validation_report, candidate_signals, ranking_method, response>>

SpecGenerateProposals == InitRanking /\ [][GenerateProposalsCall]_vars

-----------------------------------------------------------------------------
(* Claims about proposal generation                                        *)

GenerateProposalsStep == op = "generate_proposals" /\ "reply" \in DOMAIN request

\* the ranked signal with this id
RankedWithId(id) == CHOOSE s \in Range(ranked_signals) : s.id = id

RankedIds == {s.id : s \in Range(ranked_signals)}

\* the platforms on which every one of these ranked signals is live
SharedLive(signal_ids) ==
    {p \in UNION {s.allowed_platforms : s \in Range(ranked_signals)} :
        \A k \in DOMAIN signal_ids : p \in RankedWithId(signal_ids[k]).allowed_platforms}

\* this proposal comes from an entry of the reply that has the four keys,
\* names ranked signals only, and whose signals share a live platform
FromAcceptableDraft(proposal) ==
    \E j \in DOMAIN request.reply.proposal_data :
        LET data == request.reply.proposal_data[j] IN
        /\ data.complete
        /\ data.id = proposal.id /\ data.name = proposal.name
        /\ data.signal_ids = proposal.signal_ids
        /\ Range(data.signal_ids) \subseteq RankedIds
        /\ SharedLive(data.signal_ids) # {}

\* C21: on the AI generation path every returned proposal comes from a draft
\* that carries id, name, signal_ids and reasoning, names only ranked signals
\* and whose signals share a live platform; its platforms are the intersection
\* of its signals' live platforms, its logic is OR and its score 0.8
C21_KeptDraftsAreRederived ==
    (GenerateProposalsStep /\ generation_method = "ai_generation") =>
        \A i \in DOMAIN proposals :
            /\ FromAcceptableDraft(proposals[i])
            /\ proposals[i].platforms = SharedLive(proposals[i].signal_ids)
            /\ proposals[i].logic = "OR"
            /\ proposals[i].score = 80

\* a two-signal draft is kept with platforms that are neither its own
\* assertion nor its first signal's, while another draft is dropped
C21_Witness ==
    /\ GenerateProposalsStep /\ generation_method = "ai_generation"
    /\ Len(proposals) < Len(request.reply.proposal_data)
    /\ \E i \in DOMAIN proposals :
          /\ Len(proposals[i].signal_ids) = 2
          /\ proposals[i].platforms = {"dv360"}
          /\ RankedWithId("signal_001").allowed_platforms = {"amazon", "dv360"}

\* an entry of the reply that _parse_proposal_response does not drop
AcceptableDraft(data) ==
    /\ data.complete
    /\ data.signal_ids # <<>>
    /\ Range(data.signal_ids) \subseteq RankedIds
    /\ SharedLive(data.signal_ids) # {}

\* the collaborator is unavailable, fails, or every draft is dropped
MustFallBack ==
    \/ ~request.is_available
    \/ request.reply.raised
    \/ \A j \in DOMAIN request.reply.proposal_data :
          ~AcceptableDraft(request.reply.proposal_data[j])

\* positions of the ranked signals that are the first of their name
FirstOfNamePositions ==
    {i \in DOMAIN ranked_signals :
        \A j \in 1..(i - 1) : ranked_signals[j].name # ranked_signals[i].name}

\* the k-th smallest of these positions
KthFirstOfName(k) ==
    CHOOSE i \in FirstOfNamePositions :
        Cardinality({j \in FirstOfNamePositions : j <= i}) = k

-----------------------------------------------------------------------------
(* Claims about the failure reasons of ProposalValidator, under SpecValidator *)

\* the reasons of the rules this proposal fails, read from the tables
FailedRuleReasons(p) ==
    (IF \E i \in DOMAIN p.signal_ids :
            \A row \in signal_segments : row.id # p.signal_ids[i]
     THEN {ERR_UNKNOWN_SIGNAL} ELSE {})
    \cup (IF p.signal_ids = <<>> \/ LiveIntersection(p.signal_ids) = {}
          THEN {ERR_NO_COMMON} ELSE {})
    \cup (IF p.logic # "OR" THEN {ERR_LOGIC} ELSE {})
    \cup (IF \/ p.id = NoneVal \/ p.name = NoneVal
             \/ p.signal_ids = <<>> \/ p.platforms = {}
          THEN {ERR_METADATA} ELSE {})

\* C23: all four rules are evaluated on every proposal: an invalid proposal
\* carries exactly the reasons of the rules it fails, each once, a valid one
\* fails none, and a proposal whose signals share no live platform is
\* returned invalid with the no-common-platforms reason
C23_AllFailedRulesAreReported ==
    op = "validate" =>
        /\ \A i \in DOMAIN invalid_proposals :
              LET p == invalid_proposals[i] IN
              /\ ~p.valid
              /\ Range(p.validation_errors) = FailedRuleReasons(p)
              /\ Len(p.validation_errors) = Cardinality(FailedRuleReasons(p))
              /\ p.validation_errors # <<>>
        /\ \A i \in DOMAIN valid_proposals : FailedRuleReasons(valid_proposals[i]) = {}
        /\ \A i \in DOMAIN proposals :
              (proposals[i].signal_ids # <<>>
                 /\ LiveIntersection(proposals[i].signal_ids) = {}) =>
                  \E j \in DOMAIN invalid_proposals :
                      /\ invalid_proposals[j].id = proposals[i].id
                      /\ ERR_NO_COMMON \in Range(invalid_proposals[j].validation_errors)

\* a proposal of stored signals that share no live platform, with AND logic,
\* carries both reasons
C23_Witness ==
    /\ op = "validate"
    /\ \E i \in DOMAIN invalid_proposals :
          /\ Len(invalid_proposals[i].signal_ids) = 2
          /\ \A k \in DOMAIN invalid_proposals[i].signal_ids :
                SegmentExists(invalid_proposals[i].signal_ids[k])
          /\ invalid_proposals[i].validation_errors = <<ERR_NO_COMMON, ERR_LOGIC>>

-----------------------------------------------------------------------------
(* Bulk advance over a table that holds several activations                *)

\* an activation row as activate and later advance calls leave it
StoredActivation(created_at, target_id, status, completed_at) ==
    [ActivationContext(created_at,
                       [target_id |-> target_id, target_type |-> "segment"],
                       {"dv360"})
        EXCEPT !.status = status, !.completed_at = completed_at]

\* the rows an activation made at this time for this target may have become
StoredActivations(created_at, target_id) ==
    {StoredActivation(created_at, target_id, status, NoTime) :
        status \in {"pending", "in_progress"}}
    \cup {StoredActivation(created_at, target_id, "completed", completed_at) :
             completed_at \in created_at..MaxClock}

\* tables: a context of another type or none, and any of three activations,
\* two of them made at the same time
BulkTables ==
    {other \cup a \cup b \cup c :
        other \in {{}, {OtherContext}},
        a \in {{}} \cup {{r} : r \in StoredActivations(0, "signal_001")},
        b \in {{}} \cup {{r} : r \in StoredActivations(0, "signal_002")},
        c \in {{}} \cup {{r} : r \in StoredActivations(MaxClock, "signal_001")}}

InitBulk ==
    /\ signal_segments = {SegmentRow("signal_001", "Sports Fans", 20, 1),
                          SegmentRow("signal_002", "Travel Planners", 10, 1)}
    /\ platform_deployments = {DeploymentRow("signal_001", "dv360", TRUE),
                               DeploymentRow("signal_002", "dv360", TRUE)}
    /\ op = "init"
    /\ proposals = <<>>
    /\ valid_proposals = <<>>
    /\ invalid_proposals = <<>>
    /\ validation_report = NoReport
    /\ request = NoRequest
    /\ candidate_signals = <<>>
    /\ ranked_signals = <<>>
    /\ ranking_method = NoneVal
    /\ generation_method = NoneVal
    /\ response = NoResponse
    /\ contexts \in BulkTables
    /\ activations = {}
    /\ clock = MaxClock

SpecBulkAdvance == InitBulk /\ [][BulkAdvance]_vars

-----------------------------------------------------------------------------
(* Claims about bulk advance, under SpecBulkAdvance *)

BulkAdvanceStep == op' = "simulate_bulk_transitions" /\ clock' = clock

\* one advance step on this row, made at this time
OneStepOn(row, now) ==
    IF row.status = "pending" THEN [row EXCEPT !.status = "in_progress"]
    ELSE [row EXCEPT !.status = "completed", !.completed_at = now]

\* C24: a bulk advance with bound N applies one advance step to each of
\* min(N, k) of the k activation contexts that are pending or in_progress
\* when it starts, none of them created later than one it leaves, and it
\* leaves every other context as it was
C24_BulkAdvancesTheOldestOnce ==
    [][BulkAdvanceStep =>
        LET moved == contexts \ contexts' IN
        /\ moved \subseteq PendingRows
        /\ Cardinality(moved) = Min(request'.max_transitions, Cardinality(PendingRows))
        /\ \A c \in moved, d \in PendingRows \ moved : c.created_at <= d.created_at
        /\ contexts' = (contexts \ moved) \cup {OneStepOn(c, clock) : c \in moved}
    ]_vars

\* a bulk advance with bound 1 has advanced one context to in_progress and
\* left a later pending one and a completed one in the table
C24_Witness ==
    /\ op = "simulate_bulk_transitions"
    /\ request.max_transitions = 1
    /\ response.count = 1
    /\ response.updated_activations[1].status = "in_progress"
    /\ \E c, d \in contexts :
          /\ c.context_type = "activation" /\ c.status = "in_progress"
          /\ c.created_at = 0
          /\ d.context_type = "activation" /\ d.status = "pending"
          /\ d.created_at = MaxClock
    /\ \E e \in contexts : e.context_type = "activation" /\ e.status = "completed"
    /\ OtherContext \in contexts

-----------------------------------------------------------------------------
(* Advance calls that run at the same time (status_simulator.py:37-76):    *)
(* every call has its own connection, and its SELECT and its UPDATE are    *)
(* separate statements with no lock held in between; request holds what    *)
(* each call has read so far                                               *)

Callers == {"call_a", "call_b"}

Idle == [pc |-> "idle", activation_id |-> NoneVal, current_status |-> NoneVal]

InitConcurrent ==
    /\ signal_segments = {SegmentRow("signal_001", "Sports Fans", 20, 1)}
    /\ platform_deployments = {DeploymentRow("signal_001", "dv360", TRUE)}
    /\ op = "init"
    /\ proposals = <<>>
    /\ valid_proposals = <<>>
    /\ invalid_proposals = <<>>
    /\ validation_report = NoReport
    /\ request = [caller \in Callers |-> Idle]
    /\ candidate_signals = <<>>
    /\ ranked_signals = <<>>
    /\ ranking_method = NoneVal
    /\ generation_method = NoneVal
    /\ response = NoResponse
    /\ contexts = {OtherContext, StoredActivation(0, "signal_001", "pending", NoTime)}
    /\ activations = {}
    /\ clock = 0

\* mutant: the UPDATE applies only while the row still has the status read
WrittenRow_IfUnchanged(row, current_status, now) ==
    IF row.status = current_status
    THEN UpdateStatus(row, StatusFlow(current_status), now)
    ELSE row

\* the row after UPDATE contexts SET status = next_status [, completed_at]
\* WHERE context_id = ?, next_status being the successor of the status read
WrittenRow(row, current_status, now) ==
    UpdateStatus(row, StatusFlow(current_status), now)

\* a call starts and runs its first SELECT: for a missing row or a terminal
\* status it returns at once, otherwise it holds the status it read
AdvanceSelect(caller) ==
    /\ request[caller].pc = "idle"
    /\ \E activation_id \in ContextIds \cup {"act_unknown"} :
          IF activation_id \notin ContextIds
          THEN /\ response' = [caller |-> caller, details |-> NotFound]
               /\ request' = request
          ELSE LET row == ContextAt(activation_id) IN
               IF StatusFlow(row.status) = row.status
               THEN /\ response' = [caller |-> caller,
                                    details |-> ActivationDetails(row)]
                    /\ request' = request
               ELSE /\ request' = [request EXCEPT ![caller] =
                                      [pc |-> "selected",
                                       activation_id |-> activation_id,
                                       current_status |-> row.status]]
                    /\ response' = response
    /\ op' = "select"
    /\ UNCHANGED contexts
    /\ unchangedByStatus

\* the call runs its UPDATE, commits and returns the row it reads back
AdvanceUpdate(caller) ==
    /\ request[caller].pc = "selected"
    /\ LET row == ContextAt(request[caller].activation_id)
           written == WrittenRow(row, request[caller].current_status, clock)
       IN /\ contexts' = (contexts \ {row}) \cup {written}
          /\ response' = [caller |-> caller, details |-> ActivationDetails(written),
                          read |-> request[caller].current_status,
                          overwritten |-> row.status]
    /\ request' = [request EXCEPT ![caller] = Idle]
    /\ op' = "update"
    /\ unchangedByStatus

NextConcurrent ==
    \/ Tick
    \/ \E caller \in Callers : AdvanceSelect(caller)
    \/ \E caller \in Callers : AdvanceUpdate(caller)

SpecConcurrentAdvance == InitConcurrent /\ [][NextConcurrent]_vars

-----------------------------------------------------------------------------
(* Claims about concurrent advances, under SpecConcurrentAdvance *)

UpdateStep == op' = "update" /\ clock' = clock

\* the successor of a status that is not terminal
SuccessorOf(status) == IF status = "pending" THEN "in_progress" ELSE "completed"

\* C25: concurrent advance calls on one activation are not serialized: the
\* write of a call stores the successor of the status that call read,
\* whatever the row holds by then, so the last write wins
C25_WriteFollowsOwnRead ==
    [][UpdateStep =>
        \E caller \in Callers :
            /\ request[caller].pc = "selected"
            /\ request'[caller].pc = "idle"
            /\ \E row \in contexts' :
                  /\ row.context_id = request[caller].activation_id
                  /\ row.status = SuccessorOf(request[caller].current_status)
    ]_vars

\* a call that read pending has written in_progress over completed
C25_Witness ==
    /\ op = "update"
    /\ "overwritten" \in DOMAIN response
    /\ response.read = "pending"
    /\ response.overwritten = "completed"
    /\ response.details.status = "in_progress"

\* two calls that both read pending have both written in_progress
C25_TwoAdvancesOneStep ==
    /\ op = "update"
    /\ "overwritten" \in DOMAIN response
    /\ response.read = "pending"
    /\ response.overwritten = "in_progress"
    /\ response.details.status = "in_progress"

-----------------------------------------------------------------------------
(* Activation on a table that already holds contexts: signal_001 is live   *)
(* on two platforms, signal_002 has a deployment that is not live, and     *)
(* signal_404 is not stored                                                *)

InitActivateOnTable ==
    /\ signal_segments = {SegmentRow("signal_001", "Sports Fans", 20, 1),
                          SegmentRow("signal_002", "Travel Planners", 10, 1)}
    /\ platform_deployments = {DeploymentRow("signal_001", "dv360", TRUE),
                               DeploymentRow("signal_001", "amazon", TRUE),
                               DeploymentRow("signal_002", "dv360", FALSE)}
    /\ op = "init"
    /\ proposals = <<>>
    /\ valid_proposals = <<>>
    /\ invalid_proposals = <<>>
    /\ validation_report = NoReport
    /\ request = NoRequest
    /\ candidate_signals = <<>>
    /\ ranked_signals = <<>>
    /\ ranking_method = NoneVal
    /\ generation_method = NoneVal
    /\ response = NoResponse
    /\ contexts \in {{PrincipalContext("principal_a", r) : r \in table} :
                        table \in BulkTables}
    /\ activations = {}
    /\ clock = MaxClock

\* requests for a segment that is live, one that is not, one that is not
\* stored, and for a proposal whose signals share no live platform
TableRequests ==
    {[segment_id |-> segment_id, proposal_id |-> NoneVal, platforms |-> platforms] :
        segment_id \in {"signal_001", "signal_002", "signal_404"},
        platforms \in {{"dv360"}, {"openx"}, {"dv360", "openx"}}}
    \cup {[segment_id |-> NoneVal, proposal_id |-> "proposal_001",
           platforms |-> {"dv360"}]}

\* POST /activation on this table; the ids kept in memory are bounded
ActivateOnTable ==
    /\ \E req \in TableRequests, principal_id \in PrincipalIds :
          /\ request' = [segment_id |-> req.segment_id, proposal_id |-> req.proposal_id,
                         platforms |-> req.platforms, principal_id |-> principal_id]
          /\ response' = ProcessActivationAs(req, principal_id, {}).answer
          /\ contexts' = contexts \cup ProcessActivationAs(req, principal_id, {}).rows
          /\ activations' = activations \cup
                {r.context_id : r \in ProcessActivationAs(req, principal_id, {}).rows}
          /\ Cardinality(activations') <= MaxContexts
    /\ op' = "activate_signal"
    /\ unchangedByActivations

SpecActivateOnTable == InitActivateOnTable /\ [][ActivateOnTable]_vars

-----------------------------------------------------------------------------
(* Claims about the context an activation stores, under SpecActivateOnTable *)

C26_FailedAtTarget ==
    /\ op = "activate_signal"
    /\ response.detail = ERR_SEGMENT_NOT_FOUND
    /\ Cardinality(contexts) = 3

-----------------------------------------------------------------------------
(* Activate, advance and force while the store refuses the write: the      *)
(* INSERT or UPDATE (or its commit) raises, the except clause rolls back   *)

ERR_WRITE_FAILED == "sqlite3.OperationalError"

\* process_activation when the INSERT of _create_activation_context raises:
\* rollback, the exception is raised again and the handler answers 500
ProcessActivationWriteFails(req, principal_id) ==
    LET normal == ProcessActivationAs(req, principal_id, {}) IN
    IF normal.rows = {} THEN normal
    ELSE [answer |-> Answer("OperationalError", ERR_WRITE_FAILED, NoneVal, {}),
          rows |-> {}]

\* simulate_status_transition when its UPDATE raises: rollback, return None,
\* and the handler answers as for None
SimulateStatusTransitionWriteFails(activation_id) ==
    IF /\ activation_id \in ContextIds
       /\ StatusFlow(ContextAt(activation_id).status) # ContextAt(activation_id).status
    THEN /\ response' = StatusAnswer(NotFound)
         /\ contexts' = contexts
    ELSE SimulateStatusTransition(activation_id)

\* force_status when its UPDATE raises: rollback, return None
ForceStatusWriteFails(activation_id, status) ==
    /\ response' = StatusAnswer(NotFound)
    /\ contexts' = contexts

ActivateWithWrite ==
    /\ op = "init"
    /\ \E req \in TableRequests, principal_id \in PrincipalIds, write_fails \in BOOLEAN :
          LET done == IF write_fails THEN ProcessActivationWriteFails(req, principal_id)
                      ELSE ProcessActivationAs(req, principal_id, {}) IN
          /\ request' = [segment_id |-> req.segment_id, proposal_id |-> req.proposal_id,
                         platforms |-> req.platforms, principal_id |-> principal_id,
                         write_fails |-> write_fails]
          /\ response' = done.answer
          /\ contexts' = contexts \cup done.rows
          /\ activations' = activations \cup {r.context_id : r \in done.rows}
    /\ op' = "activate_signal"
    /\ unchangedByActivations

AdvanceWithWrite ==
    /\ op = "init"
    /\ \E activation_id \in ContextIds \cup {"act_unknown"}, write_fails \in BOOLEAN :
          /\ request' = [activation_id |-> activation_id, status |-> NoneVal,
                         write_fails |-> write_fails]
          /\ IF write_fails THEN SimulateStatusTransitionWriteFails(activation_id)
             ELSE SimulateStatusTransition(activation_id)
    /\ op' = "simulate_status_transition"
    /\ unchangedByStatus

ForceWithWrite ==
    /\ op = "init"
    /\ \E activation_id \in ContextIds \cup {"act_unknown"},
          status \in {"pending", "failed", "queued"}, write_fails \in BOOLEAN :
          /\ request' = [activation_id |-> activation_id, status |-> status,
                         write_fails |-> write_fails]
          /\ IF write_fails /\ status \in ValidStatuses /\ activation_id \in ContextIds
             THEN ForceStatusWriteFails(activation_id, status)
             ELSE ForceStatus(activation_id, status)
    /\ op' = "force_status"
    /\ unchangedByStatus

NextWriteFailures == ActivateWithWrite \/ AdvanceWithWrite \/ ForceWithWrite

SpecWriteFailures == InitActivateOnTable /\ [][NextWriteFailures]_vars

-----------------------------------------------------------------------------
(* Claims about failing writes, under SpecWriteFailures *)

\* the call reaches its INSERT or UPDATE, which fails
WriteFailsInStep ==
    /\ request'.write_fails
    /\ \/ /\ op' = "activate_signal"
          /\ request'.segment_id = "signal_001"
          /\ "dv360" \in request'.platforms
          /\ \A c \in contexts :
                c.context_id # ActivationId(clock, request'.segment_id)
       \/ /\ op' = "simulate_status_transition"
          /\ \E c \in contexts : /\ c.context_id = request'.activation_id
                                 /\ c.status \in {"pending", "in_progress"}
       \/ /\ op' = "force_status"
          /\ request'.status \in ValidStatuses
          /\ \E c \in contexts : c.context_id = request'.activation_id

\* C27: when the store write of an activate, advance or force fails, the
\* store is unchanged and the caller gets a failure that is neither a normal
\* result nor the answer for a target or an activation that is not found
C27_WriteFailureIsReported ==
    [][WriteFailsInStep =>
        /\ contexts' = contexts
        /\ response'.error \notin {NoneVal, "ValueError", "HTTPException 404"}
    ]_vars

\* the part that holds: a failing write leaves the store as it was
C27_WriteFailureRollsBack ==
    [][WriteFailsInStep => contexts' = contexts]_vars

\* the UPDATE of an advance on a pending activation has failed
C27_AdvanceWriteFailed ==
    /\ op = "simulate_status_transition"
    /\ request.write_fails
    /\ \E c \in contexts : c.context_id = request.activation_id /\ c.status = "pending"
    /\ response.error = "HTTPException 404"

-----------------------------------------------------------------------------
(* Claims about the completion timestamp, under SpecLifecycle *)

\* C28: in every reachable state an activation context that is pending or
\* in_progress has no completion timestamp, and one that is completed or
\* failed has one
C28_CompletionTimestampMatchesStatus ==
    \A c \in contexts :
        c.context_type = "activation" =>
            /\ c.status \in {"pending", "in_progress"} => c.completed_at = NoTime
            /\ c.status \in {"completed", "failed"} => c.completed_at # NoTime

\* the part that holds: a completed or failed activation has the timestamp
C28_TerminalHasTimestamp ==
    \A c \in contexts :
        (c.context_type = "activation" /\ c.status \in {"completed", "failed"})
            => c.completed_at # NoTime

-----------------------------------------------------------------------------
(* Claims about activation identifiers, under SpecActivateOnTable *)

\* the request passes the target and platform checks: signal_001 is live on
\* dv360 and amazon
PassesChecks(r) == r.segment_id = "signal_001" /\ "dv360" \in r.platforms

\* C29: every activate call that passes the target and platform checks gets
\* an identifier that no stored context has, and its context is stored
C29_ActivationIdIsFresh ==
    [][(ActivateStep /\ PassesChecks(request')) =>
        /\ response'.error = NoneVal
        /\ \A c \in contexts : c.context_id # response'.activation_id
        /\ \E c \in contexts' : c.context_id = response'.activation_id
    ]_vars

\* a second activate for the same target in the same second has been refused
C29_SameSecondCollision ==
    /\ op = "activate_signal"
    /\ PassesChecks(request)
    /\ response.error = "IntegrityError"
    /\ \E c \in contexts : /\ c.context_id = ActivationId(clock, "signal_001")
                           /\ c.created_at = clock

-----------------------------------------------------------------------------
(* Claims about the number of proposals, under SpecGenerateProposals *)

\* C30: generate_proposals returns at most max_proposals proposals, on the
\* AI generation path and on the fallback path
C30_AtMostMaxProposals ==
    GenerateProposalsStep => Len(proposals) <= request.limit

\* the part that holds: the fallback path returns at most max_proposals
C30_FallbackAtMostMaxProposals ==
    (GenerateProposalsStep /\ generation_method = "fallback")
        => Len(proposals) <= request.limit

\* the fallback path has stopped at max_proposals with more names at hand
C30_FallbackCut ==
    /\ GenerateProposalsStep /\ generation_method = "fallback"
    /\ Len(proposals) = request.limit
    /\ Cardinality(FirstOfNamePositions) > request.limit

=============================================================================
